---- MODULE Spec2Model ----
(***************************************************************************)
(* Model of the Custom Vision training script                              *)
(*   Labfiles/image-classification/python/train-classifier/                *)
(*   train-classifier.py                                                   *)
(* main() connects to the project, Upload_Images() uploads the tagged      *)
(* images and Train_Model() submits a training iteration and polls its     *)
(* status every 5 seconds until it reads "Completed".                      *)
(*                                                                         *)
(* The program is single threaded; pc is the position of that thread.      *)
(* Every call the program makes (print, sleep, remote call) is appended    *)
(* to log with the source line of the call, so that the console output     *)
(* and the order of polls, prints and sleeps can be read back from it.     *)
(* The remote training job is the environment: its status is job.          *)
(*                                                                         *)
(* The other scripts of the repository are modelled the same way, each     *)
(* with its own initial state, pc labels and specification:                *)
(*   TcSpec           test-classifier.py                                   *)
(*   InteractiveSpec  dalle-client.py and chat-app.py                      *)
(*   AtSpec           add-tagged-images.py                                 *)
(*   AfSpec           analyze-faces.py                                     *)
(*   RtSpec           read-text.py                                         *)
(***************************************************************************)
EXTENDS Integers, Sequences, FiniteSets, TLC

VARIABLES
    pc,         \* position of the single program thread
    iteration,  \* iteration.status held by Train_Model (line 142 / 148)
    job,        \* status of the remote training job (owned by the service)
    settled,    \* TRUE once the remote job will change status no more
    log,        \* every call made so far, in program order
    clock,      \* seconds spent in time.sleep so far
    exc,        \* the exception travelling to / caught by main (line 69)
    tags,       \* result of get_tags (line 103)
    tagIdx,     \* index of the tag the for loop of line 106 is at
    images,     \* files of the current tag folder still to upload (line 113)
    iterId,     \* iteration.id held by Train_Model (line 142 / 148)
    jobId,      \* id the service gave the training job
    imgNo,      \* dalle-client: img_no (line 83)
    inputText,  \* dalle-client: input_text (line 90)
    prompt,     \* chat-app: prompt (line 87 / 94)
    files,      \* test-classifier: test images still to classify (line 49)
    image,      \* test-classifier: the image of the current iteration
    preds,      \* test-classifier: predictions of image still to look at
    classified, \* test-classifier: every prediction looked at so far
    projectTags,    \* add-tagged-images: tags, the result of get_tags (line 108)
    tagged_images,  \* add-tagged-images: tagged_images['files'] (line 119)
    fileNo,         \* add-tagged-images: index of the for loop of line 122
    regions,        \* add-tagged-images: regions (line 129)
    tagged_images_with_regions, \* add-tagged-images: the batch (line 113)
    upload_result,  \* add-tagged-images: upload_result (line 165)
    detected_faces, \* analyze-faces: detected_faces (line 114)
    face_count,     \* analyze-faces: face_count (line 123)
    result,         \* read-text: result.read (line 69)
    lineNo,         \* read-text: index of the for loops of lines 81 and 92
    image_file      \* analyze-faces (lines 70-78), read-text (38-44): image_file

\* locals of add-tagged-images, analyze-faces and read-text
atVars == <<projectTags, tagged_images, fileNo, regions,
            tagged_images_with_regions, upload_result>>
afVars == <<detected_faces, face_count>>
rtVars == <<result, lineNo>>
otherLabs == <<atVars, afVars, rtVars, image_file>>

\* locals of the other scripts, untouched by train-classifier
others == <<otherLabs, imgNo, inputText, prompt, files, image, preds, classified>>

\* the identity of the training job
ids == <<iterId, jobId>>

\* state of train-classifier that the other scripts do not have
trainVars == <<iteration, job, settled, clock, tags, tagIdx, images, iterId, jobId>>

vars == <<pc, iteration, job, settled, log, clock, exc, tags, tagIdx, images,
          iterId, jobId, imgNo, inputText, prompt, files, image, preds, classified,
          projectTags, tagged_images, fileNo, regions, tagged_images_with_regions,
          upload_result, detected_faces, face_count, result, lineNo, image_file>>

---------------------------------------------------------------------------
(* Bounds of the model *)

\* most get_iteration calls one run may issue
MaxPolls == 4
\* most tags get_tags returns
MaxTags == 1
\* most files os.listdir finds in one tag folder
MaxImages == 1
\* most files os.listdir finds in test-images (test-classifier)
MaxTestImages == 2
\* most predictions classify_image returns for one image
MaxPredictions == 1
\* most input() calls of one session (dalle-client, chat-app)
MaxInputs == 3

---------------------------------------------------------------------------
(* Values *)

\* time.sleep(5), line 155
SleepSeconds == 5

\* iteration.status values the service can report; only "Completed" is
\* known to the program, the rest are arbitrary provider strings
Statuses == {"Training", "Validating", "Completed", "Failed"}

\* the job before train_project has created it
NoJob == "None"

\* ids the service can give a new iteration: the id is opaque to the
\* program, which only stores it and passes it back, so one value stands
\* for all of them
IterationIds == {"iteration-1"}

\* tag names of the project, in the order get_tags lists them
TagNames == <<"apple", "banana", "orange">>

\* exceptions a remote call or a file operation can raise; str(ex) is msg
Errors ==
    { [type |-> "ConnectionError", msg |-> "Connection aborted."],
      [type |-> "CustomVisionErrorException", msg |-> "Operation returned an invalid status code 'Unauthorized'"] }

NoError == [type |-> "None", msg |-> ""]

\* indexing an empty list
IndexError == [type |-> "IndexError", msg |-> "list index out of range"]

\* json.loads on a text that is not JSON
JSONDecodeError ==
    [type |-> "JSONDecodeError", msg |-> "Expecting value: line 1 column 1 (char 0)"]

\* print(ex), line 71: the text printed for an exception is str(ex)
ErrorText(e) == e.msg

\* print(iteration.status, '...'), line 151: print joins its arguments
\* with one space
StatusLineNoSpace(s) == s \o "..."
StatusLine(s) == s \o " " \o "..."

\* line 138
HeaderLine == "Training ..."

\* line 158
TrainedLine == "Model trained!"

\* line 99
UploadingLine == "Uploading images..."

\* the comparison of the while condition, line 146
IsTerminalTypo(s) == s = "Complete"
IsTerminalAlsoFailed(s) == s \in {"Completed", "Failed"}
IsTerminal(s) == s = "Completed"

---------------------------------------------------------------------------
(* The call log *)

\* one call: op the function called, arg the text printed / the status
\* returned / the message of the exception raised, ok whether it returned
\* normally, at the source line of the call, t the clock when it was made
Ev(op, arg, ok, at) == [op |-> op, arg |-> arg, ok |-> ok, at |-> at, t |-> clock]

Emit(op, arg, ok, at) == log' = Append(log, Ev(op, arg, ok, at))

\* several calls made one after the other
EmitAll(evs) == log' = log \o evs

\* raise inside the try block of main: control moves to line 69
Raise(e) == /\ exc' = e
            /\ pc' = "except"

\* upload_result before create_images_from_files has returned
NoUploadResult == [is_batch_successful |-> FALSE, images |-> <<>>]

\* result.read when the service returns no read section (result.read is
\* None, read-text line 75); also its value before analyze has returned
NoRead == [isNone |-> TRUE, blocks |-> <<>>]

\* the locals of add-tagged-images, analyze-faces and read-text before
\* (or without) a run of theirs
OtherLabsIdle ==
    /\ projectTags = <<>>
    /\ tagged_images = <<>>
    /\ fileNo = 0
    /\ regions = <<>>
    /\ tagged_images_with_regions = <<>>
    /\ upload_result = NoUploadResult
    /\ detected_faces = <<>>
    /\ face_count = 0
    /\ result = NoRead
    /\ lineNo = 0
    /\ image_file = ""

---------------------------------------------------------------------------
(* Init: the process has started, nothing has run (line 168) *)

Init ==
    /\ pc = "main"
    /\ iteration = NoJob
    /\ job = NoJob
    /\ settled = FALSE
    /\ log = <<>>
    /\ clock = 0
    /\ exc = NoError
    /\ tags = <<>>
    /\ tagIdx = 0
    /\ images = 0
    /\ iterId = NoJob
    /\ jobId = NoJob
    /\ imgNo = 0
    /\ inputText = <<>>
    /\ prompt = <<>>
    /\ files = <<>>
    /\ image = ""
    /\ preds = <<>>
    /\ classified = <<>>
    /\ OtherLabsIdle

---------------------------------------------------------------------------
(* main, lines 36-58: configuration, client, get_project *)

GetProjectOk ==
    /\ pc = "main"
    /\ Emit("get_project", "", TRUE, 58)
    /\ pc' = "Upload_Images"
    /\ UNCHANGED <<others, ids, iteration, job, settled, clock, exc, tags, tagIdx, images>>

GetProjectRaise ==
    /\ pc = "main"
    /\ \E e \in Errors :
        /\ Emit("get_project", ErrorText(e), FALSE, 58)
        /\ Raise(e)
    /\ UNCHANGED <<others, ids, iteration, job, settled, clock, tags, tagIdx, images>>

---------------------------------------------------------------------------
(* Upload_Images, lines 99-120 *)

\* line 99
UploadStart ==
    /\ pc = "Upload_Images"
    /\ Emit("print", UploadingLine, TRUE, 99)
    /\ pc' = "get_tags"
    /\ UNCHANGED <<others, ids, iteration, job, settled, clock, exc, tags, tagIdx, images>>

\* line 103
GetTagsOk ==
    /\ pc = "get_tags"
    /\ \E n \in 0..MaxTags :
        /\ n <= Len(TagNames)
        /\ tags' = SubSeq(TagNames, 1, n)
    /\ tagIdx' = 1
    /\ Emit("get_tags", "", TRUE, 103)
    /\ pc' = "for_tag"
    /\ UNCHANGED <<others, ids, iteration, job, settled, clock, exc, images>>

GetTagsRaise ==
    /\ pc = "get_tags"
    /\ \E e \in Errors :
        /\ Emit("get_tags", ErrorText(e), FALSE, 103)
        /\ Raise(e)
    /\ UNCHANGED <<others, ids, iteration, job, settled, clock, tags, tagIdx, images>>

\* lines 106-107: next tag of the for loop, print(tag.name)
NextTag ==
    /\ pc = "for_tag"
    /\ tagIdx <= Len(tags)
    /\ Emit("print", tags[tagIdx], TRUE, 107)
    /\ pc' = "listdir"
    /\ UNCHANGED <<others, ids, iteration, job, settled, clock, exc, tags, tagIdx, images>>

\* an Upload_Images that returns before the tags are exhausted
UploadReturnEarly ==
    /\ pc = "for_tag"
    /\ pc' = "Train_Model"
    /\ UNCHANGED <<others, ids, iteration, job, settled, log, clock, exc, tags, tagIdx, images>>

\* line 106 exhausted: Upload_Images returns to main, line 67 calls Train_Model
UploadReturn ==
    /\ pc = "for_tag"
    /\ tagIdx > Len(tags)
    /\ pc' = "Train_Model"
    /\ UNCHANGED <<others, ids, iteration, job, settled, log, clock, exc, tags, tagIdx, images>>

\* line 113
ListDirOk ==
    /\ pc = "listdir"
    /\ \E n \in 0..MaxImages : images' = n
    /\ Emit("listdir", tags[tagIdx], TRUE, 113)
    /\ pc' = "for_image"
    /\ UNCHANGED <<others, ids, iteration, job, settled, clock, exc, tags, tagIdx>>

ListDirRaise ==
    /\ pc = "listdir"
    /\ \E e \in Errors :
        /\ Emit("listdir", ErrorText(e), FALSE, 113)
        /\ Raise(e)
    /\ UNCHANGED <<others, ids, iteration, job, settled, clock, tags, tagIdx, images>>

\* lines 113-120: one image read and uploaded with the tag
UploadImageOk ==
    /\ pc = "for_image"
    /\ images > 0
    /\ Emit("create_images_from_data", tags[tagIdx], TRUE, 120)
    /\ images' = images - 1
    /\ UNCHANGED <<others, ids, pc, iteration, job, settled, clock, exc, tags, tagIdx>>

\* line 116 (open/read) or line 120 (create_images_from_data) raises
UploadImageRaise ==
    /\ pc = "for_image"
    /\ images > 0
    /\ \E e \in Errors, at \in {116, 120} :
        /\ Emit(IF at = 116 THEN "open" ELSE "create_images_from_data",
                ErrorText(e), FALSE, at)
        /\ Raise(e)
    /\ UNCHANGED <<others, ids, iteration, job, settled, clock, tags, tagIdx, images>>

\* line 113 exhausted: back to the for loop of line 106
ImagesDone ==
    /\ pc = "for_image"
    /\ images = 0
    /\ tagIdx' = tagIdx + 1
    /\ pc' = "for_tag"
    /\ UNCHANGED <<others, ids, iteration, job, settled, log, clock, exc, tags, images>>

---------------------------------------------------------------------------
(* What the log says *)

\* the calls of log that satisfy Test, in order
Calls(op) == SelectSeq(log, LAMBDA e : e.op = op)

\* the console: the text of every print, in order
Out ==
    LET p == Calls("print")
    IN  [i \in 1..Len(p) |-> p[i].arg]

\* the get_iteration calls issued so far (returned or raised), line 148
Polls == Calls("get_iteration")
NumPolls == Len(Polls)

\* the statuses the get_iteration calls that returned have returned
PollResults ==
    LET okPolls == SelectSeq(Polls, LAMBDA e : e.ok)
    IN  [i \in 1..Len(okPolls) |-> okPolls[i].arg]

\* the time.sleep calls so far, line 155
NumSleeps == Len(Calls("sleep"))

\* the console lines written by Train_Model (lines 138-158)
TrainOut ==
    LET p == SelectSeq(log, LAMBDA e : e.op = "print" /\ e.at >= 138 /\ e.at <= 158)
    IN  [i \in 1..Len(p) |-> p[i].arg]

\* the console lines written by the print of the while loop, line 151
LoopLines ==
    LET p == SelectSeq(log, LAMBDA e : e.op = "print" /\ e.at = 151)
    IN  [i \in 1..Len(p) |-> p[i].arg]

---------------------------------------------------------------------------
(* Train_Model, lines 138-158 *)

\* a Train_Model without the header line
TrainStartSilent ==
    /\ pc = "Train_Model"
    /\ pc' = "train_project"
    /\ UNCHANGED <<others, ids, iteration, job, settled, log, clock, exc, tags, tagIdx, images>>

\* line 138
TrainStart ==
    /\ pc = "Train_Model"
    /\ Emit("print", HeaderLine, TRUE, 138)
    /\ pc' = "train_project"
    /\ UNCHANGED <<others, ids, iteration, job, settled, clock, exc, tags, tagIdx, images>>

\* line 142: the service creates the job and returns it with its status
TrainProjectOk ==
    /\ pc = "train_project"
    /\ \E s \in Statuses :
        /\ job' = s
        /\ iteration' = s
        /\ Emit("train_project", s, TRUE, 142)
    /\ \E id \in IterationIds :
        /\ jobId' = id
        /\ iterId' = id
    /\ pc' = "while"
    /\ UNCHANGED <<others, settled, clock, exc, tags, tagIdx, images>>

TrainProjectRaise ==
    /\ pc = "train_project"
    /\ \E e \in Errors :
        /\ Emit("train_project", ErrorText(e), FALSE, 142)
        /\ Raise(e)
    /\ UNCHANGED <<others, ids, iteration, job, settled, clock, tags, tagIdx, images>>

\* a loop that tests its condition only after the first poll
LoopEnterDoWhile ==
    /\ pc = "while"
    /\ (~IsTerminal(iteration) \/ NumPolls = 0)
    /\ pc' = "get_iteration"
    /\ UNCHANGED <<others, ids, iteration, job, settled, log, clock, exc, tags, tagIdx, images>>

\* a loop that gives up after two polls
LoopEnterGiveUp ==
    /\ pc = "while"
    /\ ~IsTerminal(iteration)
    /\ pc' = (IF NumPolls >= 2 THEN "trained" ELSE "get_iteration")
    /\ UNCHANGED <<others, ids, iteration, job, settled, log, clock, exc, tags, tagIdx, images>>

\* line 146, condition true: enter the loop body
LoopEnter ==
    /\ pc = "while"
    /\ ~IsTerminal(iteration)
    /\ pc' = "get_iteration"
    /\ UNCHANGED <<others, ids, iteration, job, settled, log, clock, exc, tags, tagIdx, images>>

\* line 146, condition false: leave the loop
LoopExit ==
    /\ pc = "while"
    /\ IsTerminal(iteration)
    /\ pc' = "trained"
    /\ UNCHANGED <<others, ids, iteration, job, settled, log, clock, exc, tags, tagIdx, images>>

\* a poll whose result is not assigned back to iteration
GetIterationStale ==
    /\ pc = "get_iteration"
    /\ NumPolls < MaxPolls
    /\ Emit("get_iteration", job, TRUE, 148)
    /\ pc' = "print_status"
    /\ UNCHANGED <<others, ids, iteration, job, settled, clock, exc, tags, tagIdx, images>>

\* a loop that submits the project again instead of querying the iteration
GetIterationResubmit ==
    /\ pc = "get_iteration"
    /\ NumPolls < MaxPolls
    /\ \E st \in Statuses :
        /\ job' = st
        /\ iteration' = st
        /\ Emit("train_project", st, TRUE, 148)
    /\ pc' = "print_status"
    /\ UNCHANGED <<others, ids, settled, clock, exc, tags, tagIdx, images>>

\* line 148: the service looks the iteration up by iteration.id and returns
\* it with its current status
GetIterationOk ==
    /\ pc = "get_iteration"
    /\ NumPolls < MaxPolls
    /\ iterId = jobId
    /\ iteration' = job
    /\ iterId' = jobId
    /\ Emit("get_iteration", job, TRUE, 148)
    /\ pc' = "print_status"
    /\ UNCHANGED <<others, jobId, job, settled, clock, exc, tags, tagIdx, images>>

\* a failed poll handled by polling again instead of propagating
GetIterationRetry ==
    /\ pc = "get_iteration"
    /\ NumPolls < MaxPolls
    /\ \E e \in Errors : Emit("get_iteration", ErrorText(e), FALSE, 148)
    /\ UNCHANGED <<others, ids, pc, iteration, job, settled, clock, exc, tags, tagIdx, images>>

\* a failed poll swallowed: the loop body carries on with the old status
GetIterationSwallow ==
    /\ pc = "get_iteration"
    /\ NumPolls < MaxPolls
    /\ \E e \in Errors : Emit("get_iteration", ErrorText(e), FALSE, 148)
    /\ pc' = "print_status"
    /\ UNCHANGED <<others, ids, iteration, job, settled, clock, exc, tags, tagIdx, images>>

\* line 148 raises: nothing in Train_Model catches it
GetIterationRaise ==
    /\ pc = "get_iteration"
    /\ NumPolls < MaxPolls
    /\ \E e \in Errors :
        /\ Emit("get_iteration", ErrorText(e), FALSE, 148)
        /\ Raise(e)
    /\ UNCHANGED <<others, ids, iteration, job, settled, clock, tags, tagIdx, images>>

\* a loop that prints the status only while it is not terminal
PrintStatusNonTerminal ==
    /\ pc = "print_status"
    /\ IF IsTerminal(iteration)
          THEN pc' = "while" /\ UNCHANGED log
          ELSE pc' = "sleep" /\ Emit("print", StatusLine(iteration), TRUE, 151)
    /\ UNCHANGED <<others, ids, iteration, job, settled, clock, exc, tags, tagIdx, images>>

\* a loop body without the sleep
PrintStatusNoSleep ==
    /\ pc = "print_status"
    /\ Emit("print", StatusLine(iteration), TRUE, 151)
    /\ pc' = "while"
    /\ UNCHANGED <<others, ids, iteration, job, settled, clock, exc, tags, tagIdx, images>>

\* line 151
PrintStatus ==
    /\ pc = "print_status"
    /\ Emit("print", StatusLine(iteration), TRUE, 151)
    /\ pc' = "sleep"
    /\ UNCHANGED <<others, ids, iteration, job, settled, clock, exc, tags, tagIdx, images>>

\* a loop that goes back to the while condition without waiting
SleepNoWait ==
    /\ pc = "sleep"
    /\ pc' = "while"
    /\ UNCHANGED <<others, ids, iteration, job, settled, log, clock, exc, tags, tagIdx, images>>

\* line 155, then back to the while condition
Sleep ==
    /\ pc = "sleep"
    /\ Emit("sleep", "", TRUE, 155)
    /\ clock' = clock + SleepSeconds
    /\ pc' = "while"
    /\ UNCHANGED <<others, ids, iteration, job, settled, exc, tags, tagIdx, images>>

\* line 158; Train_Model returns, the try block of main ends, main returns
PrintTrained ==
    /\ pc = "trained"
    /\ Emit("print", TrainedLine, TRUE, 158)
    /\ pc' = "done"
    /\ UNCHANGED <<others, ids, iteration, job, settled, clock, exc, tags, tagIdx, images>>

---------------------------------------------------------------------------
(* main, lines 69-71: the catch-all handler *)

\* a handler that drops the exception without printing it
ExceptSilent ==
    /\ pc = "except"
    /\ pc' = "done"
    /\ UNCHANGED <<others, ids, iteration, job, settled, log, clock, exc, tags, tagIdx, images>>

\* lines 69-71
Except ==
    /\ pc = "except"
    /\ Emit("print", ErrorText(exc), TRUE, 71)
    /\ pc' = "done"
    /\ UNCHANGED <<others, ids, iteration, job, settled, clock, exc, tags, tagIdx, images>>

---------------------------------------------------------------------------
(* The remote job, followed while Train_Model watches it *)

Watching == pc \in {"while", "get_iteration", "print_status", "sleep"}

\* the service moves the job to another status; "Completed" is final
JobChange ==
    /\ Watching
    /\ ~settled
    /\ job # "Completed"
    /\ \E s \in Statuses \ {job} : job' = s
    /\ UNCHANGED <<others, ids, pc, iteration, settled, log, clock, exc, tags, tagIdx, images>>

\* the job comes to rest in its current status, whatever that is
JobSettle ==
    /\ Watching
    /\ ~settled
    /\ settled' = TRUE
    /\ UNCHANGED <<others, ids, pc, iteration, job, log, clock, exc, tags, tagIdx, images>>

---------------------------------------------------------------------------
(* Specifications *)

\* steps of the program on the path where no call raises
Program ==
    \/ GetProjectOk
    \/ UploadStart
    \/ GetTagsOk
    \/ NextTag
    \/ UploadReturn
    \/ ListDirOk
    \/ UploadImageOk
    \/ ImagesDone
    \/ TrainStart
    \/ TrainProjectOk
    \/ LoopEnter
    \/ LoopExit
    \/ GetIterationOk
    \/ PrintStatus
    \/ Sleep
    \/ PrintTrained

\* calls that raise, and the handler of main that receives what they raise
Failure ==
    \/ Except
    \/ GetProjectRaise
    \/ GetTagsRaise
    \/ ListDirRaise
    \/ UploadImageRaise
    \/ TrainProjectRaise
    \/ GetIterationRaise

Environment ==
    \/ JobChange
    \/ JobSettle

Next == Program \/ Failure \/ Environment

Spec == Init /\ [][Next]_vars

\* runs in which every call returns: the thread is alone and every blocking
\* call comes back, so the program always takes its next step
LiveNext == Program \/ Environment

LiveSpec == Init /\ [][LiveNext]_vars /\ WF_vars(Program)

---------------------------------------------------------------------------
(* Vocabulary of the properties *)

\* Train_Model has returned normally to main
TrainReturned == pc = "done" /\ exc = NoError

\* the status train_project returned, once it has
Submitted == \E i \in 1..Len(log) : log[i].op = "train_project" /\ log[i].ok
SubmitStatus == Calls("train_project")[1].arg

\* a get_iteration call has raised
PollFailed == \E i \in 1..NumPolls : ~Polls[i].ok

\* the poll results that are not the terminal status, in poll order
NonTerminalResults == SelectSeq(PollResults, LAMBDA r : r # "Completed")

StatusLines(rs) == [i \in 1..Len(rs) |-> StatusLine(rs[i])]

\* a console line that reads "<status> ..."
IsProgressLine(l) == \E st \in Statuses : l = StatusLine(st)

CountIn(sq, Test(_)) == Len(SelectSeq(sq, Test))

\* the statuses the program has read so far, from train_project and the polls
Observed ==
    LET c == SelectSeq(log, LAMBDA e : e.ok /\ e.op \in {"train_project", "get_iteration"})
    IN  [i \in 1..Len(c) |-> c[i].arg]

---------------------------------------------------------------------------
(* C1: when train_project returned a non-terminal status and Train_Model    *)
(* has returned, the number of get_iteration calls is the position of the   *)
(* first "Completed" among the poll results; and in every state a poll      *)
(* that returned "Completed" is the last poll issued.                       *)
C1_PollsUntilFirstCompleted ==
    /\ (TrainReturned /\ SubmitStatus # "Completed") =>
          /\ NumPolls >= 1
          /\ Len(PollResults) = NumPolls
          /\ PollResults[NumPolls] = "Completed"
          /\ \A i \in 1..(NumPolls - 1) : PollResults[i] # "Completed"
    /\ LET p == Polls
       IN  \A i \in 1..Len(p) :
              (p[i].ok /\ p[i].arg = "Completed") => i = Len(p)

C1_Witness ==
    /\ TrainReturned
    /\ NumPolls = 3
    /\ PollResults = <<"Training", "Failed", "Completed">>

(* C2 as stated: once Train_Model has returned, the loop has printed one    *)
(* line per non-terminal poll result and none for the "Completed" result.   *)
C2_Original_NoLineForCompleted ==
    (TrainReturned /\ NumPolls >= 1) => LoopLines = StatusLines(NonTerminalResults)

(* C2 amended: once Train_Model has returned, the loop has printed one line *)
(* per poll result, in poll order, the last of them "Completed ..." for the *)
(* terminal result.                                                         *)
C2_OneLinePerPollResult ==
    (TrainReturned /\ NumPolls >= 1) =>
        /\ Len(LoopLines) = Len(NonTerminalResults) + 1
        /\ \A i \in 1..Len(LoopLines) : LoopLines[i] = StatusLine(PollResults[i])
        /\ LoopLines[Len(LoopLines)] = "Completed ..."

C2_Witness ==
    /\ TrainReturned
    /\ PollResults = <<"Training", "Validating", "Completed">>
    /\ LoopLines = <<"Training ...", "Validating ...", "Completed ...">>

(* C3 as stated: the whole output of Train_Model is the lines of the        *)
(* non-terminal poll results followed by "Model trained!".                  *)
C3_Original_OutputExact ==
    (TrainReturned /\ NumPolls >= 1) => TrainOut = StatusLines(NonTerminalResults) \o <<TrainedLine>>

(* C3 amended: the whole output of Train_Model is the header "Training      *)
(* ...", one line per poll result including "Completed ...", then "Model    *)
(* trained!", and nothing else.                                             *)
C3_OutputExact ==
    TrainReturned =>
        TrainOut = <<"Training ...">> \o StatusLines(PollResults) \o <<"Model trained!">>

\* the run whose polls return Training, Training, Validating, Completed
C3_Witness ==
    /\ TrainReturned
    /\ PollResults = <<"Training", "Training", "Validating", "Completed">>
    /\ TrainOut = <<"Training ...", "Training ...", "Training ...",
                    "Validating ...", "Completed ...", "Model trained!">>

(* C4: "Model trained!" is on the console at most once, as its last line,   *)
(* and only when the last status read is exactly "Completed"; the loop is   *)
(* left (line 158 reached) only with that status.                           *)
C4_TrainedOnlyAfterCompleted ==
    /\ CountIn(Out, LAMBDA l : l = "Model trained!") <= 1
    /\ (\E i \in 1..Len(Out) : Out[i] = "Model trained!") =>
          /\ Out[Len(Out)] = "Model trained!"
          /\ Observed[Len(Observed)] = "Completed"
    /\ (pc = "trained" \/ TrainReturned) =>
          /\ Observed[Len(Observed)] = "Completed"
          /\ iteration = "Completed"

C4_Witness ==
    /\ TrainReturned
    /\ Out[Len(Out)] = "Model trained!"
    /\ \E i \in 1..Len(PollResults) : PollResults[i] = "Failed"

(* C5: while the remote job rests in a status other than "Completed" and   *)
(* no call has failed, Train_Model is still inside its loop -- it has not   *)
(* returned, has raised nothing and has not printed "Model trained!" --     *)
(* and, whatever the number of polls made so far (below the bound of the    *)
(* model), its next step is possible: no count of polls makes it give up.   *)
C5_NeverReturnsOnOtherStatus ==
    (settled /\ job # "Completed" /\ exc = NoError) =>
        /\ Watching
        /\ ~TrainReturned
        /\ \A i \in 1..Len(Out) : Out[i] # "Model trained!"
        /\ NumPolls < MaxPolls => ENABLED (LoopEnter \/ GetIterationOk \/ PrintStatus \/ Sleep)
        /\ pc = "while" => ENABLED LoopEnter

C5_Witness ==
    /\ settled
    /\ job = "Failed"
    /\ exc = NoError
    /\ NumPolls = MaxPolls
    /\ PollResults[MaxPolls] = "Failed"
    /\ PollResults[MaxPolls - 1] = "Failed"
    /\ NumSleeps = MaxPolls
    /\ pc = "get_iteration"

(* C6: in runs where every call returns, from any state in which the job    *)
(* is "Completed" while Train_Model is watching (with a poll left within    *)
(* the bound of the model, or "Completed" already read), Train_Model        *)
(* eventually prints "Model trained!" as the last line and returns.         *)
C6_EventuallyTrained ==
    (job = "Completed" /\ Watching /\ (NumPolls < MaxPolls \/ iteration = "Completed"))
        ~> (TrainReturned /\ Out[Len(Out)] = "Model trained!" /\ ~ENABLED Program)

C6_Witness ==
    /\ TrainReturned
    /\ PollResults = <<"Training", "Validating", "Completed">>
    /\ Out[Len(Out)] = "Model trained!"

(* C7: when the N-th get_iteration call has raised, the exception main      *)
(* receives is the one that call raised, and the loop has printed N-1       *)
(* status lines, one per poll that returned, none for call N.               *)
C7_RaisePropagatesWithoutLine ==
    LET p == Polls
    IN  \A n \in 1..Len(p) :
            ~p[n].ok =>
                /\ exc \in Errors
                /\ ErrorText(exc) = p[n].arg
                /\ pc \in {"except", "done"}
                /\ Len(PollResults) = n - 1
                /\ LoopLines = StatusLines(PollResults)

C7_Witness ==
    /\ NumPolls = 3
    /\ ~Polls[3].ok
    /\ pc = "except"
    /\ exc.type = "ConnectionError"
    /\ LoopLines = <<"Training ...", "Validating ...">>

(* C8 as stated: when a poll failed after k polls that returned, the        *)
(* console holds exactly k lines of the form "<status> ..." and no "Model   *)
(* trained!".                                                               *)
C8_Original_KProgressLines ==
    (pc = "done" /\ PollFailed) =>
        /\ CountIn(Out, IsProgressLine) = Len(PollResults)
        /\ \A i \in 1..Len(Out) : Out[i] # "Model trained!"

(* C8 amended: when a poll failed after k polls that returned, the console  *)
(* ends with the failure message; before it Train_Model has written the     *)
(* header "Training ..." and then the k progress lines of the loop, so      *)
(* k + 1 lines of the form "<status> ..." in all; and no "Model trained!".  *)
C8_HeaderPlusKProgressLines ==
    (pc = "done" /\ PollFailed) =>
        /\ Out[Len(Out)] = ErrorText(exc)
        /\ TrainOut = <<"Training ...">> \o StatusLines(PollResults)
        /\ CountIn(SubSeq(Out, 1, Len(Out) - 1), IsProgressLine) = Len(PollResults) + 1
        /\ \A i \in 1..Len(Out) : Out[i] # "Model trained!"

C8_Witness ==
    /\ pc = "done"
    /\ NumPolls = 2
    /\ PollResults = <<"Training">>
    /\ ~Polls[2].ok
    /\ TrainOut = <<"Training ...", "Training ...">>
    /\ Out[Len(Out)] = "Connection aborted."

(* C9: after a get_iteration call that raised, the program makes no call    *)
(* but the one print of that error at line 71 -- no poll, no sleep, no      *)
(* status line -- and once it is printed the program has ended.             *)
C9_FailedPollNotRetried ==
    \A i \in 1..Len(log) :
        (log[i].op = "get_iteration" /\ ~log[i].ok) =>
            LET rest == SubSeq(log, i + 1, Len(log))
            IN  /\ Len(rest) <= 1
                /\ Len(rest) = 1 =>
                      /\ rest[1].op = "print"
                      /\ rest[1].at = 71
                      /\ rest[1].arg = log[i].arg
                /\ pc = (IF Len(rest) = 0 THEN "except" ELSE "done")
                /\ pc = "done" => ~ENABLED Next

C9_Witness ==
    /\ pc = "done"
    /\ NumPolls = 2
    /\ ~Polls[2].ok
    /\ NumSleeps = 1
    /\ exc.type = "CustomVisionErrorException"
    /\ CountIn(Out, LAMBDA l : l = ErrorText(exc)) = 1

(* C10 as stated: when the first poll returns "Completed", Train_Model      *)
(* returns without a sleep, with no line "<status> ..." printed by the      *)
(* loop and exactly one "Model trained!".                                   *)
C10_Original_ImmediateReturn ==
    (TrainReturned /\ NumPolls >= 1 /\ PollResults[1] = "Completed") =>
        /\ NumSleeps = 0
        /\ LoopLines = <<>>
        /\ CountIn(Out, LAMBDA l : l = "Model trained!") = 1

(* C10 amended: when the first poll returns "Completed", Train_Model polls  *)
(* no more, prints the status line "Completed ...", sleeps once for 5       *)
(* seconds and then prints exactly one "Model trained!" and returns.        *)
C10_FirstPollCompleted ==
    (TrainReturned /\ NumPolls >= 1 /\ PollResults[1] = "Completed") =>
        /\ NumPolls = 1
        /\ NumSleeps = 1
        /\ clock = SleepSeconds
        /\ LoopLines = <<"Completed ...">>
        /\ CountIn(Out, LAMBDA l : l = "Model trained!") = 1
        /\ Out[Len(Out)] = "Model trained!"

C10_Witness ==
    /\ TrainReturned
    /\ SubmitStatus = "Training"
    /\ PollResults = <<"Completed">>
    /\ NumSleeps = 1

---------------------------------------------------------------------------
(* More vocabulary: the calls of Train_Model *)

\* the print calls of Train_Model (lines 138-158), with their clock
TrainPrints ==
    SelectSeq(log, LAMBDA e : e.op = "print" /\ e.at >= 138 /\ e.at <= 158)

\* the calls made from inside the while loop (lines 146-155)
LoopCalls == SelectSeq(log, LAMBDA e : e.at >= 146 /\ e.at <= 155)

(* C11 as stated: between any two consecutive lines printed by Train_Model  *)
(* at least one full sleep of 5 seconds has passed.                         *)
C11_Original_SleepBetweenPrints ==
    LET p == TrainPrints
    IN  \A i \in 1..(Len(p) - 1) : p[i + 1].t - p[i].t >= SleepSeconds

(* C11 amended: after every line printed by Train_Model other than the      *)
(* header "Training ..." of line 138, one full sleep of 5 seconds passes    *)
(* before the next line; the header is followed by the next line with no    *)
(* sleep in between.                                                        *)
C11_SleepBetweenLoopPrints ==
    LET p == TrainPrints
    IN  \A i \in 1..(Len(p) - 1) :
            IF p[i].at = 138
               THEN p[i + 1].t = p[i].t
               ELSE p[i + 1].t - p[i].t = SleepSeconds

C11_Witness ==
    LET p == TrainPrints
    IN  /\ TrainReturned
        /\ Len(p) = 4
        /\ p[2].at = 151 /\ p[2].t = p[1].t
        /\ p[3].at = 151 /\ p[3].t = p[2].t + 5
        /\ p[4].at = 158 /\ p[4].t = p[3].t + 5

(* C12: every get_iteration call that returned is followed at once by one   *)
(* print of line 151 whose text is the status it returned, a space and      *)
(* "..."; line 151 prints nothing else; so outside the instant between the  *)
(* poll and its print there are as many status lines as successful polls.   *)
C12_OneLinePerPollCycle ==
    /\ \A i \in 1..Len(log) :
          /\ (log[i].op = "get_iteration" /\ log[i].ok /\ i < Len(log)) =>
                /\ log[i + 1].op = "print"
                /\ log[i + 1].at = 151
                /\ log[i + 1].arg = log[i].arg \o " ..."
          /\ (log[i].op = "print" /\ log[i].at = 151) =>
                /\ i > 1
                /\ log[i - 1].op = "get_iteration"
                /\ log[i - 1].ok
    /\ pc # "print_status" => Len(LoopLines) = Len(PollResults)

C12_Witness ==
    /\ pc = "sleep"
    /\ PollResults = <<"Validating", "Failed">>
    /\ LoopLines = <<"Validating ...", "Failed ...">>

(* C13: train_project is called at most once and before every call of the  *)
(* loop; the calls made from inside the loop are get_iteration, print and   *)
(* sleep only; while Train_Model is past the submission it holds the id of  *)
(* the job that submission created; and no step of the program other than   *)
(* the submission itself changes the job, its id or its status.             *)
C13_WatcherNeverMutatesJob ==
    /\ [](/\ Len(Calls("train_project")) <= 1
          /\ \A i \in 1..Len(log) :
                (log[i].at >= 146 /\ log[i].at <= 155) =>
                    /\ log[i].op \in {"get_iteration", "print", "sleep"}
                    /\ \E j \in 1..(i - 1) : log[j].op = "train_project" /\ log[j].ok
          /\ pc \in {"while", "get_iteration", "print_status", "sleep", "trained"} =>
                /\ Len(Calls("train_project")) = 1
                /\ jobId \in IterationIds
                /\ iterId = jobId)
    /\ [][(pc' # pc /\ pc # "train_project") =>
              (job' = job /\ jobId' = jobId /\ settled' = settled)]_vars

C13_Witness ==
    /\ pc = "sleep"
    /\ NumPolls = 3
    /\ Len(Calls("train_project")) = 1
    /\ iterId = "iteration-1"
    /\ job # SubmitStatus

---------------------------------------------------------------------------
(* test-classifier.py                                                      *)
(* Labfiles/image-classification/python/test-classifier/test-classifier.py *)
(* main() classifies every file of test-images and prints the predictions  *)
(* whose probability is above 0.5.  Probabilities are counted in            *)
(* thousandths: 501 is 0.501.                                               *)

\* the 0.5 of line 65, in thousandths
Threshold == 500

\* probabilities the service can return, in thousandths, on both sides of
\* the threshold and on it, and one whose product with 100 is not exact
Probabilities == {499, 500, 501, 545, 850}

\* file names os.listdir('test-images') returns, in its order
TestImages == <<"IMG_TEST_1.jpg", "IMG_TEST_2.jpg", "IMG_TEST_3.jpg">>

\* the lists classify_image can return: one prediction per tag, in tag order
PredictionLists ==
    UNION { [1..n -> Probabilities] : n \in 0..MaxPredictions }

\* '{:.0%}'.format(p), line 68, for p in 0..1000 thousandths: the float is
\* multiplied by 100 and the product rounded to the nearest whole number, an
\* exact half going to the even neighbour. The product is the exact p / 10
\* for every p but two: 0.545 * 100 is 54.50000000000001 (printed 55%) and
\* 0.575 * 100 is 57.49999999999999 (printed 57%)
Percent(p) ==
    LET q == p \div 10
        r == p % 10
    IN  CASE p = 545 -> 55
          [] p = 575 -> 57
          [] OTHER -> IF r > 5 \/ (r = 5 /\ q % 2 = 1) THEN q + 1 ELSE q

PercentText(p) == ToString(Percent(p)) \o "%"

\* print(image, ': {} ({:.0%})'.format(tag_name, probability)), line 68
PredictionLine(img, tag, p) ==
    img \o " " \o ": " \o tag \o " (" \o PercentText(p) \o ")"

\* the test of line 65
AboveThresholdInclusive(p) == p >= Threshold
AboveThreshold(p) == p > Threshold

TcInit ==
    /\ pc = "tc_main"
    /\ iteration = NoJob
    /\ job = NoJob
    /\ settled = FALSE
    /\ log = <<>>
    /\ clock = 0
    /\ exc = NoError
    /\ tags = <<>>
    /\ tagIdx = 0
    /\ images = 0
    /\ iterId = NoJob
    /\ jobId = NoJob
    /\ imgNo = 0
    /\ inputText = <<>>
    /\ prompt = <<>>
    /\ files = <<>>
    /\ image = ""
    /\ preds = <<>>
    /\ classified = <<>>
    /\ OtherLabsIdle

\* raise inside the try block of line 27: control moves to line 69
TcRaise(e) == /\ exc' = e
              /\ pc' = "tc_except"

\* lines 27-49: configuration, client, os.listdir('test-images')
TcListDirOk ==
    /\ pc = "tc_main"
    /\ \E n \in 0..MaxTestImages :
        /\ n <= Len(TestImages)
        /\ files' = SubSeq(TestImages, 1, n)
    /\ Emit("listdir", "test-images", TRUE, 49)
    /\ pc' = "tc_for_image"
    /\ UNCHANGED <<otherLabs, trainVars, exc, imgNo, inputText, prompt, image, preds, classified>>

TcListDirRaise ==
    /\ pc = "tc_main"
    /\ \E e \in Errors :
        /\ Emit("listdir", ErrorText(e), FALSE, 49)
        /\ TcRaise(e)
    /\ UNCHANGED <<otherLabs, trainVars, imgNo, inputText, prompt, files, image, preds, classified>>

\* lines 49-52: next file of the for loop, read as binary data
TcNextImage ==
    /\ pc = "tc_for_image"
    /\ files # <<>>
    /\ image' = Head(files)
    /\ files' = Tail(files)
    /\ Emit("open", Head(files), TRUE, 52)
    /\ pc' = "tc_classify"
    /\ UNCHANGED <<otherLabs, trainVars, exc, imgNo, inputText, prompt, preds, classified>>

\* lines 49-52: the for statement binds the next file, then open raises
TcReadRaise ==
    /\ pc = "tc_for_image"
    /\ files # <<>>
    /\ image' = Head(files)
    /\ files' = Tail(files)
    /\ \E e \in Errors :
        /\ Emit("open", ErrorText(e), FALSE, 52)
        /\ TcRaise(e)
    /\ UNCHANGED <<otherLabs, trainVars, imgNo, inputText, prompt, preds, classified>>

\* line 49 exhausted: the try block ends, main returns
TcImagesDone ==
    /\ pc = "tc_for_image"
    /\ files = <<>>
    /\ pc' = "done"
    /\ UNCHANGED <<otherLabs, trainVars, log, exc, others>>

\* line 57
TcClassifyOk ==
    /\ pc = "tc_classify"
    /\ \E ps \in PredictionLists :
        preds' = [i \in 1..Len(ps) |-> [tag_name |-> TagNames[i], probability |-> ps[i]]]
    /\ Emit("classify_image", image, TRUE, 57)
    /\ pc' = "tc_for_pred"
    /\ UNCHANGED <<otherLabs, trainVars, exc, imgNo, inputText, prompt, files, image, classified>>

TcClassifyRaise ==
    /\ pc = "tc_classify"
    /\ \E e \in Errors :
        /\ Emit("classify_image", ErrorText(e), FALSE, 57)
        /\ TcRaise(e)
    /\ UNCHANGED <<otherLabs, trainVars, imgNo, inputText, prompt, files, image, preds, classified>>

\* lines 61-68, condition of line 65 true: the prediction is printed
TcPrintPrediction ==
    /\ pc = "tc_for_pred"
    /\ preds # <<>>
    /\ AboveThreshold(Head(preds).probability)
    /\ Emit("print", PredictionLine(image, Head(preds).tag_name, Head(preds).probability), TRUE, 68)
    /\ classified' = Append(classified, [image |-> image, tag_name |-> Head(preds).tag_name,
                                         probability |-> Head(preds).probability])
    /\ preds' = Tail(preds)
    /\ UNCHANGED <<otherLabs, trainVars, pc, exc, imgNo, inputText, prompt, files, image>>

\* lines 61-65, condition of line 65 false: nothing is printed
TcSkipPrediction ==
    /\ pc = "tc_for_pred"
    /\ preds # <<>>
    /\ ~AboveThreshold(Head(preds).probability)
    /\ classified' = Append(classified, [image |-> image, tag_name |-> Head(preds).tag_name,
                                         probability |-> Head(preds).probability])
    /\ preds' = Tail(preds)
    /\ UNCHANGED <<otherLabs, trainVars, pc, log, exc, imgNo, inputText, prompt, files, image>>

\* line 61 exhausted: back to the for loop of line 49
TcPredictionsDone ==
    /\ pc = "tc_for_pred"
    /\ preds = <<>>
    /\ pc' = "tc_for_image"
    /\ UNCHANGED <<otherLabs, trainVars, log, exc, others>>

\* lines 69-71
TcExcept ==
    /\ pc = "tc_except"
    /\ Emit("print", ErrorText(exc), TRUE, 71)
    /\ pc' = "done"
    /\ UNCHANGED <<otherLabs, trainVars, exc, others>>

TcNext ==
    \/ TcListDirOk
    \/ TcListDirRaise
    \/ TcNextImage
    \/ TcReadRaise
    \/ TcImagesDone
    \/ TcClassifyOk
    \/ TcClassifyRaise
    \/ TcPrintPrediction
    \/ TcSkipPrediction
    \/ TcPredictionsDone
    \/ TcExcept

TcSpec == TcInit /\ [][TcNext]_vars

\* the lines printed by line 68, in order
PredictionLines ==
    LET p == SelectSeq(log, LAMBDA e : e.op = "print" /\ e.at = 68)
    IN  [i \in 1..Len(p) |-> p[i].arg]

(* C14: at every moment the lines printed by line 68 are, in order, the     *)
(* lines "<image> : <tag> (<pct>)" of exactly those predictions looked at   *)
(* so far whose probability is strictly above 0.5; a prediction at 0.5 or   *)
(* below has no line.                                                       *)
C14_PrintedIffAboveHalf ==
    LET above == SelectSeq(classified, LAMBDA c : c.probability > 500)
    IN  /\ Len(PredictionLines) = Len(above)
        /\ \A i \in 1..Len(above) :
              PredictionLines[i] =
                  PredictionLine(above[i].image, above[i].tag_name, above[i].probability)
        /\ \A i \in 1..Len(classified) :
              classified[i].probability <= 500 =>
                  \A j \in 1..Len(PredictionLines) :
                      PredictionLines[j] #
                          PredictionLine(classified[i].image, classified[i].tag_name,
                                         classified[i].probability)

C14_Witness ==
    /\ pc = "done"
    /\ exc = NoError
    /\ Len(classified) = 2
    /\ classified[1].probability = 500
    /\ classified[2].probability = 501
    /\ PredictionLines = <<"IMG_TEST_2.jpg : apple (50%)">>

---------------------------------------------------------------------------
(* C15 as stated: once Train_Model has returned after at least one poll,    *)
(* it has slept one time less than it has polled.                           *)
C15_Original_SleepsOneLessThanPolls ==
    (TrainReturned /\ NumPolls >= 1) => NumSleeps = NumPolls - 1

(* C15 amended: Train_Model sleeps after every poll that returned, the one  *)
(* that returned "Completed" included: each sleep directly follows a status *)
(* line; the call after it is another get_iteration unless that line was    *)
(* "Completed ...", and then it is the print of "Model trained!"; a run     *)
(* that returns has slept as many times as it has polled.                   *)
C15_SleepAfterEveryPoll ==
    /\ \A i \in 1..Len(log) :
          log[i].op = "sleep" =>
              /\ i > 1
              /\ log[i - 1].op = "print"
              /\ log[i - 1].at = 151
              /\ i < Len(log) =>
                    IF log[i - 1].arg = "Completed ..."
                       THEN log[i + 1].op = "print" /\ log[i + 1].at = 158
                       ELSE log[i + 1].op = "get_iteration"
    /\ NumSleeps <= Len(PollResults)
    /\ TrainReturned => NumSleeps = NumPolls

C15_Witness ==
    /\ TrainReturned
    /\ NumPolls = 2
    /\ NumSleeps = 2
    /\ clock = 10

(* C16: polls are strictly sequential: a get_iteration call that is not the *)
(* first comes right after the sleep that followed the status line of the   *)
(* previous poll, which had returned, 5 seconds of sleep later; and while   *)
(* the thread is in a poll or in a sleep the only call that can be logged   *)
(* is that poll or that sleep: nothing else runs in between.                *)
C16_PollsStrictlySequential ==
    /\ [](\A j \in 1..Len(log) :
            (log[j].op = "get_iteration" /\ \E i \in 1..(j - 1) : log[i].op = "get_iteration") =>
                /\ j > 3
                /\ log[j - 1].op = "sleep"
                /\ log[j - 2].op = "print" /\ log[j - 2].at = 151
                /\ log[j - 3].op = "get_iteration" /\ log[j - 3].ok
                /\ log[j].t = log[j - 3].t + SleepSeconds)
    /\ [][(pc \in {"get_iteration", "sleep"} /\ log' # log) =>
              /\ Len(log') = Len(log) + 1
              /\ SubSeq(log', 1, Len(log)) = log
              /\ log'[Len(log')].op = pc
              /\ pc' \in {"print_status", "while", "except"}]_vars

C16_Witness ==
    /\ pc = "get_iteration"
    /\ NumPolls = 3
    /\ NumSleeps = 3
    /\ Len(LoopLines) = 3
    /\ clock = 15

(* C17: train_project is called only after get_project has returned, the    *)
(* header of Upload_Images was printed and every tag of get_tags has had    *)
(* its name printed and its folder listed, all calls before it having       *)
(* returned normally; when a call of lines 36-120 raised, train_project is  *)
(* never called and main prints that error once.                            *)
C17_TrainOnlyAfterUpload ==
    /\ \A i \in 1..Len(log) :
          log[i].op = "train_project" =>
              LET before == SubSeq(log, 1, i - 1)
              IN  /\ \A k \in 1..Len(before) : before[k].ok
                  /\ before[1].op = "get_project"
                  /\ before[2].op = "print" /\ before[2].at = 99
                  /\ before[3].op = "get_tags"
                  /\ before[Len(before)].op = "print" /\ before[Len(before)].at = 138
                  /\ \A k \in 1..Len(tags) :
                        \E a \in 4..(Len(before) - 2) :
                            /\ before[a].op = "print"
                            /\ before[a].at = 107
                            /\ before[a].arg = tags[k]
                            /\ before[a + 1].op = "listdir"
                  /\ Len(SelectSeq(before, LAMBDA e : e.at = 107)) = Len(tags)
    /\ \A i \in 1..Len(log) :
          (~log[i].ok /\ log[i].at < 138) =>
              /\ Calls("train_project") = <<>>
              /\ i = Len(log) \/ (i = Len(log) - 1 /\ log[Len(log)].op = "print"
                                  /\ log[Len(log)].at = 71
                                  /\ log[Len(log)].arg = log[i].arg)
              /\ pc = "done" => Len(SelectSeq(log, LAMBDA e : e.at = 71)) = 1

C17_Witness ==
    /\ Submitted
    /\ tags = <<"apple">>
    /\ \E i \in 1..Len(log) : log[i].op = "create_images_from_data" /\ log[i].ok
    /\ pc = "while"

C17_WitnessRaise ==
    /\ pc = "done"
    /\ \E i \in 1..Len(log) : log[i].op = "create_images_from_data" /\ ~log[i].ok
    /\ Calls("train_project") = <<>>

(* C25: the call before train_project is always the print of "Training    *)
(* ...", whether train_project returns or raises; when train_project        *)
(* returns "Completed" nothing follows it but the print of "Model           *)
(* trained!": no get_iteration, no sleep, no status line, and the whole     *)
(* output of Train_Model is then the header and "Model trained!".           *)
C25_CompletedAtSubmit ==
    \A i \in 1..Len(log) :
        log[i].op = "train_project" =>
            /\ i > 1
            /\ log[i - 1].op = "print" /\ log[i - 1].arg = "Training ..."
            /\ log[i - 1].at = 138
            /\ (log[i].ok /\ log[i].arg = "Completed") =>
                  /\ Len(log) <= i + 1
                  /\ pc \in {"while", "trained", "done"}
                  /\ (Len(log) = i + 1) = (pc = "done")
                  /\ Len(log) = i + 1 =>
                        /\ log[i + 1].op = "print" /\ log[i + 1].arg = "Model trained!"
                        /\ log[i + 1].at = 158
                  /\ clock = 0
                  /\ iteration = "Completed"
                  /\ TrainReturned =>
                        /\ NumPolls = 0
                        /\ NumSleeps = 0
                        /\ TrainOut = <<"Training ...", "Model trained!">>
            /\ ~log[i].ok =>
                  /\ pc \in {"except", "done"}
                  /\ TrainOut = <<"Training ...">>

C25_Witness ==
    /\ TrainReturned
    /\ SubmitStatus = "Completed"
    /\ NumPolls = 0
    /\ NumSleeps = 0
    /\ TrainOut = <<"Training ...", "Model trained!">>
    /\ clock = 0

\* train_project raised: the header is on the console, then the error
C25_WitnessRaise ==
    /\ pc = "done"
    /\ \E i \in 1..Len(log) : log[i].op = "train_project" /\ ~log[i].ok
    /\ TrainOut = <<"Training ...">>

---------------------------------------------------------------------------
(* The interactive scripts                                                  *)
(*   Labfiles/dalle-client/python/dalle-client.py                           *)
(*   Labfiles/gen-ai-vision/python/chat-app.py                              *)
(* Both read lines from the console in a while True loop inside one try     *)
(* block.  A line typed by the user is a sequence of code points, so that   *)
(* lower() and len() are computed on it; Text writes it as the string that  *)
(* is passed on.                                                            *)

\* A string is the sequence of the code points of its characters (ord of
\* each), so that len() and lower() are computed on it as Python computes
\* them.  Printable holds the characters chr(32) .. chr(126); the grave
\* accent chr(96) is written \u{60}.
Printable ==
    << " ", "!", "\"", "#", "$", "%", "&", "'", "(", ")", "*", "+", ",",
       "-", ".", "/", "0", "1", "2", "3", "4", "5", "6", "7", "8", "9", ":",
       ";", "<", "=", ">", "?", "@", "A", "B", "C", "D", "E", "F", "G", "H",
       "I", "J", "K", "L", "M", "N", "O", "P", "Q", "R", "S", "T", "U", "V",
       "W", "X", "Y", "Z", "[", "\\", "]", "^", "_", "\\u{60}", "a", "b",
       "c", "d", "e", "f", "g", "h", "i", "j", "k", "l", "m", "n", "o", "p",
       "q", "r", "s", "t", "u", "v", "w", "x", "y", "z", "{", "|", "}", "~" >>

\* ord() of a printable ASCII character
Ord(ch) == 31 + CHOOSE k \in 1..Len(Printable) : Printable[k] = ch

\* the string whose characters are chars
Codes(chars) == [i \in 1..Len(chars) |-> Ord(chars[i])]

HexDigits == <<"0", "1", "2", "3", "4", "5", "6", "7",
               "8", "9", "a", "b", "c", "d", "e", "f">>

\* format(n, 'x')
RECURSIVE Hex(_)
Hex(n) == IF n < 16 THEN HexDigits[n + 1]
          ELSE Hex(n \div 16) \o HexDigits[(n % 16) + 1]

\* how one code point is written in the log: a printable ASCII character as
\* itself, the backslash doubled, any other code point as \u{hex}
Chr(c) == IF c = 92 THEN "\\\\"
          ELSE IF 32 <= c /\ c <= 126 THEN Printable[c - 31]
          ELSE "\\u{" \o Hex(c) \o "}"

\* the sixteen spellings of quit in capital and small letters
QuitSpellings ==
    { <<q, u, i, t>> : q \in {Ord("q"), Ord("Q")}, u \in {Ord("u"), Ord("U")},
                       i \in {Ord("i"), Ord("I")}, t \in {Ord("t"), Ord("T")} }

\* what the user can type: nothing, quit in every spelling, a prompt with a
\* capital, a prompt that only starts with quit, and QU\u{130}T, whose
\* third letter is the capital I with a dot above
Inputs ==
    {<<>>}
    \cup QuitSpellings
    \cup { Codes(<<"A", "p", "p", "l", "e">>),
           Codes(<<"q", "u", "i", "t", "s">>),
           <<81, 85, 304, 84>> }

\* The lower-case mapping of the Unicode database str.lower() uses, as runs
\* <<first, last, step, delta>>: a code point c with first <= c <= last and
\* (c - first) % step = 0 is mapped to c + delta; every other code point
\* is mapped to itself.
LowerRuns ==
    << <<65, 90, 1, 32>>, <<192, 214, 1, 32>>, <<216, 222, 1, 32>>,
       <<256, 302, 2, 1>>, <<306, 310, 2, 1>>, <<313, 327, 2, 1>>,
       <<330, 374, 2, 1>>, <<376, 376, 1, -121>>, <<377, 381, 2, 1>>,
       <<385, 385, 1, 210>>, <<386, 388, 2, 1>>, <<390, 390, 1, 206>>,
       <<391, 391, 1, 1>>, <<393, 394, 1, 205>>, <<395, 395, 1, 1>>,
       <<398, 398, 1, 79>>, <<399, 399, 1, 202>>, <<400, 400, 1, 203>>,
       <<401, 401, 1, 1>>, <<403, 403, 1, 205>>, <<404, 404, 1, 207>>,
       <<406, 406, 1, 211>>, <<407, 407, 1, 209>>, <<408, 408, 1, 1>>,
       <<412, 412, 1, 211>>, <<413, 413, 1, 213>>, <<415, 415, 1, 214>>,
       <<416, 420, 2, 1>>, <<422, 422, 1, 218>>, <<423, 423, 1, 1>>,
       <<425, 425, 1, 218>>, <<428, 428, 1, 1>>, <<430, 430, 1, 218>>,
       <<431, 431, 1, 1>>, <<433, 434, 1, 217>>, <<435, 437, 2, 1>>,
       <<439, 439, 1, 219>>, <<440, 440, 1, 1>>, <<444, 444, 1, 1>>,
       <<452, 452, 1, 2>>, <<453, 453, 1, 1>>, <<455, 455, 1, 2>>,
       <<456, 456, 1, 1>>, <<458, 458, 1, 2>>, <<459, 475, 2, 1>>,
       <<478, 494, 2, 1>>, <<497, 497, 1, 2>>, <<498, 500, 2, 1>>,
       <<502, 502, 1, -97>>, <<503, 503, 1, -56>>, <<504, 542, 2, 1>>,
       <<544, 544, 1, -130>>, <<546, 562, 2, 1>>, <<570, 570, 1, 10795>>,
       <<571, 571, 1, 1>>, <<573, 573, 1, -163>>, <<574, 574, 1, 10792>>,
       <<577, 577, 1, 1>>, <<579, 579, 1, -195>>, <<580, 580, 1, 69>>,
       <<581, 581, 1, 71>>, <<582, 590, 2, 1>>, <<880, 882, 2, 1>>,
       <<886, 886, 1, 1>>, <<895, 895, 1, 116>>, <<902, 902, 1, 38>>,
       <<904, 906, 1, 37>>, <<908, 908, 1, 64>>, <<910, 911, 1, 63>>,
       <<913, 929, 1, 32>>, <<931, 939, 1, 32>>, <<975, 975, 1, 8>>,
       <<984, 1006, 2, 1>>, <<1012, 1012, 1, -60>>, <<1015, 1015, 1, 1>>,
       <<1017, 1017, 1, -7>>, <<1018, 1018, 1, 1>>, <<1021, 1023, 1, -130>>,
       <<1024, 1039, 1, 80>>, <<1040, 1071, 1, 32>>, <<1120, 1152, 2, 1>>,
       <<1162, 1214, 2, 1>>, <<1216, 1216, 1, 15>>, <<1217, 1229, 2, 1>>,
       <<1232, 1326, 2, 1>>, <<1329, 1366, 1, 48>>, <<4256, 4293, 1, 7264>>,
       <<4295, 4295, 1, 7264>>, <<4301, 4301, 1, 7264>>,
       <<5024, 5103, 1, 38864>>, <<5104, 5109, 1, 8>>,
       <<7312, 7354, 1, -3008>>, <<7357, 7359, 1, -3008>>,
       <<7680, 7828, 2, 1>>, <<7838, 7838, 1, -7615>>, <<7840, 7934, 2, 1>>,
       <<7944, 7951, 1, -8>>, <<7960, 7965, 1, -8>>, <<7976, 7983, 1, -8>>,
       <<7992, 7999, 1, -8>>, <<8008, 8013, 1, -8>>, <<8025, 8031, 2, -8>>,
       <<8040, 8047, 1, -8>>, <<8072, 8079, 1, -8>>, <<8088, 8095, 1, -8>>,
       <<8104, 8111, 1, -8>>, <<8120, 8121, 1, -8>>, <<8122, 8123, 1, -74>>,
       <<8124, 8124, 1, -9>>, <<8136, 8139, 1, -86>>, <<8140, 8140, 1, -9>>,
       <<8152, 8153, 1, -8>>, <<8154, 8155, 1, -100>>, <<8168, 8169, 1, -8>>,
       <<8170, 8171, 1, -112>>, <<8172, 8172, 1, -7>>,
       <<8184, 8185, 1, -128>>, <<8186, 8187, 1, -126>>,
       <<8188, 8188, 1, -9>>, <<8486, 8486, 1, -7517>>,
       <<8490, 8490, 1, -8383>>, <<8491, 8491, 1, -8262>>,
       <<8498, 8498, 1, 28>>, <<8544, 8559, 1, 16>>, <<8579, 8579, 1, 1>>,
       <<9398, 9423, 1, 26>>, <<11264, 11311, 1, 48>>, <<11360, 11360, 1, 1>>,
       <<11362, 11362, 1, -10743>>, <<11363, 11363, 1, -3814>>,
       <<11364, 11364, 1, -10727>>, <<11367, 11371, 2, 1>>,
       <<11373, 11373, 1, -10780>>, <<11374, 11374, 1, -10749>>,
       <<11375, 11375, 1, -10783>>, <<11376, 11376, 1, -10782>>,
       <<11378, 11378, 1, 1>>, <<11381, 11381, 1, 1>>,
       <<11390, 11391, 1, -10815>>, <<11392, 11490, 2, 1>>,
       <<11499, 11501, 2, 1>>, <<11506, 11506, 1, 1>>, <<42560, 42604, 2, 1>>,
       <<42624, 42650, 2, 1>>, <<42786, 42798, 2, 1>>, <<42802, 42862, 2, 1>>,
       <<42873, 42875, 2, 1>>, <<42877, 42877, 1, -35332>>,
       <<42878, 42886, 2, 1>>, <<42891, 42891, 1, 1>>,
       <<42893, 42893, 1, -42280>>, <<42896, 42898, 2, 1>>,
       <<42902, 42920, 2, 1>>, <<42922, 42922, 1, -42308>>,
       <<42923, 42923, 1, -42319>>, <<42924, 42924, 1, -42315>>,
       <<42925, 42925, 1, -42305>>, <<42926, 42926, 1, -42308>>,
       <<42928, 42928, 1, -42258>>, <<42929, 42929, 1, -42282>>,
       <<42930, 42930, 1, -42261>>, <<42931, 42931, 1, 928>>,
       <<42932, 42946, 2, 1>>, <<42948, 42948, 1, -48>>,
       <<42949, 42949, 1, -42307>>, <<42950, 42950, 1, -35384>>,
       <<42951, 42953, 2, 1>>, <<42960, 42960, 1, 1>>, <<42966, 42968, 2, 1>>,
       <<42997, 42997, 1, 1>>, <<65313, 65338, 1, 32>>,
       <<66560, 66599, 1, 40>>, <<66736, 66771, 1, 40>>,
       <<66928, 66938, 1, 39>>, <<66940, 66954, 1, 39>>,
       <<66956, 66962, 1, 39>>, <<66964, 66965, 1, 39>>,
       <<68736, 68786, 1, 64>>, <<71840, 71871, 1, 32>>,
       <<93760, 93791, 1, 32>>, <<125184, 125217, 1, 34>> >>

\* the code points that are cased and not case-ignorable, as ranges
\* <<first, last>>
CasedRanges ==
    << <<65, 90>>, <<97, 122>>, <<170, 170>>, <<181, 181>>, <<186, 186>>,
       <<192, 214>>, <<216, 246>>, <<248, 442>>, <<444, 447>>, <<452, 659>>,
       <<661, 687>>, <<880, 883>>, <<886, 887>>, <<891, 893>>, <<895, 895>>,
       <<902, 902>>, <<904, 906>>, <<908, 908>>, <<910, 929>>, <<931, 1013>>,
       <<1015, 1153>>, <<1162, 1327>>, <<1329, 1366>>, <<1376, 1416>>,
       <<4256, 4293>>, <<4295, 4295>>, <<4301, 4301>>, <<4304, 4346>>,
       <<4349, 4351>>, <<5024, 5109>>, <<5112, 5117>>, <<7296, 7304>>,
       <<7312, 7354>>, <<7357, 7359>>, <<7424, 7467>>, <<7531, 7543>>,
       <<7545, 7578>>, <<7680, 7957>>, <<7960, 7965>>, <<7968, 8005>>,
       <<8008, 8013>>, <<8016, 8023>>, <<8025, 8025>>, <<8027, 8027>>,
       <<8029, 8029>>, <<8031, 8061>>, <<8064, 8116>>, <<8118, 8124>>,
       <<8126, 8126>>, <<8130, 8132>>, <<8134, 8140>>, <<8144, 8147>>,
       <<8150, 8155>>, <<8160, 8172>>, <<8178, 8180>>, <<8182, 8188>>,
       <<8450, 8450>>, <<8455, 8455>>, <<8458, 8467>>, <<8469, 8469>>,
       <<8473, 8477>>, <<8484, 8484>>, <<8486, 8486>>, <<8488, 8488>>,
       <<8490, 8493>>, <<8495, 8500>>, <<8505, 8505>>, <<8508, 8511>>,
       <<8517, 8521>>, <<8526, 8526>>, <<8544, 8575>>, <<8579, 8580>>,
       <<9398, 9449>>, <<11264, 11387>>, <<11390, 11492>>, <<11499, 11502>>,
       <<11506, 11507>>, <<11520, 11557>>, <<11559, 11559>>, <<11565, 11565>>,
       <<42560, 42605>>, <<42624, 42651>>, <<42786, 42863>>, <<42865, 42887>>,
       <<42891, 42894>>, <<42896, 42954>>, <<42960, 42961>>, <<42963, 42963>>,
       <<42965, 42969>>, <<42997, 42998>>, <<43002, 43002>>, <<43824, 43866>>,
       <<43872, 43880>>, <<43888, 43967>>, <<64256, 64262>>, <<64275, 64279>>,
       <<65313, 65338>>, <<65345, 65370>>, <<66560, 66639>>, <<66736, 66771>>,
       <<66776, 66811>>, <<66928, 66938>>, <<66940, 66954>>, <<66956, 66962>>,
       <<66964, 66965>>, <<66967, 66977>>, <<66979, 66993>>, <<66995, 67001>>,
       <<67003, 67004>>, <<68736, 68786>>, <<68800, 68850>>, <<71840, 71903>>,
       <<93760, 93823>>, <<119808, 119892>>, <<119894, 119964>>,
       <<119966, 119967>>, <<119970, 119970>>, <<119973, 119974>>,
       <<119977, 119980>>, <<119982, 119993>>, <<119995, 119995>>,
       <<119997, 120003>>, <<120005, 120069>>, <<120071, 120074>>,
       <<120077, 120084>>, <<120086, 120092>>, <<120094, 120121>>,
       <<120123, 120126>>, <<120128, 120132>>, <<120134, 120134>>,
       <<120138, 120144>>, <<120146, 120485>>, <<120488, 120512>>,
       <<120514, 120538>>, <<120540, 120570>>, <<120572, 120596>>,
       <<120598, 120628>>, <<120630, 120654>>, <<120656, 120686>>,
       <<120688, 120712>>, <<120714, 120744>>, <<120746, 120770>>,
       <<120772, 120779>>, <<122624, 122633>>, <<122635, 122654>>,
       <<125184, 125251>>, <<127280, 127305>>, <<127312, 127337>>,
       <<127344, 127369>> >>

\* the code points that are case-ignorable, as ranges <<first, last>>
CaseIgnorableRanges ==
    << <<39, 39>>, <<46, 46>>, <<58, 58>>, <<94, 94>>, <<96, 96>>,
       <<168, 168>>, <<173, 173>>, <<175, 175>>, <<180, 180>>, <<183, 184>>,
       <<688, 879>>, <<884, 885>>, <<890, 890>>, <<900, 901>>, <<903, 903>>,
       <<1155, 1161>>, <<1369, 1369>>, <<1375, 1375>>, <<1425, 1469>>,
       <<1471, 1471>>, <<1473, 1474>>, <<1476, 1477>>, <<1479, 1479>>,
       <<1524, 1524>>, <<1536, 1541>>, <<1552, 1562>>, <<1564, 1564>>,
       <<1600, 1600>>, <<1611, 1631>>, <<1648, 1648>>, <<1750, 1757>>,
       <<1759, 1768>>, <<1770, 1773>>, <<1807, 1807>>, <<1809, 1809>>,
       <<1840, 1866>>, <<1958, 1968>>, <<2027, 2037>>, <<2042, 2042>>,
       <<2045, 2045>>, <<2070, 2093>>, <<2137, 2139>>, <<2184, 2184>>,
       <<2192, 2193>>, <<2200, 2207>>, <<2249, 2306>>, <<2362, 2362>>,
       <<2364, 2364>>, <<2369, 2376>>, <<2381, 2381>>, <<2385, 2391>>,
       <<2402, 2403>>, <<2417, 2417>>, <<2433, 2433>>, <<2492, 2492>>,
       <<2497, 2500>>, <<2509, 2509>>, <<2530, 2531>>, <<2558, 2558>>,
       <<2561, 2562>>, <<2620, 2620>>, <<2625, 2626>>, <<2631, 2632>>,
       <<2635, 2637>>, <<2641, 2641>>, <<2672, 2673>>, <<2677, 2677>>,
       <<2689, 2690>>, <<2748, 2748>>, <<2753, 2757>>, <<2759, 2760>>,
       <<2765, 2765>>, <<2786, 2787>>, <<2810, 2815>>, <<2817, 2817>>,
       <<2876, 2876>>, <<2879, 2879>>, <<2881, 2884>>, <<2893, 2893>>,
       <<2901, 2902>>, <<2914, 2915>>, <<2946, 2946>>, <<3008, 3008>>,
       <<3021, 3021>>, <<3072, 3072>>, <<3076, 3076>>, <<3132, 3132>>,
       <<3134, 3136>>, <<3142, 3144>>, <<3146, 3149>>, <<3157, 3158>>,
       <<3170, 3171>>, <<3201, 3201>>, <<3260, 3260>>, <<3263, 3263>>,
       <<3270, 3270>>, <<3276, 3277>>, <<3298, 3299>>, <<3328, 3329>>,
       <<3387, 3388>>, <<3393, 3396>>, <<3405, 3405>>, <<3426, 3427>>,
       <<3457, 3457>>, <<3530, 3530>>, <<3538, 3540>>, <<3542, 3542>>,
       <<3633, 3633>>, <<3636, 3642>>, <<3654, 3662>>, <<3761, 3761>>,
       <<3764, 3772>>, <<3782, 3782>>, <<3784, 3789>>, <<3864, 3865>>,
       <<3893, 3893>>, <<3895, 3895>>, <<3897, 3897>>, <<3953, 3966>>,
       <<3968, 3972>>, <<3974, 3975>>, <<3981, 3991>>, <<3993, 4028>>,
       <<4038, 4038>>, <<4141, 4144>>, <<4146, 4151>>, <<4153, 4154>>,
       <<4157, 4158>>, <<4184, 4185>>, <<4190, 4192>>, <<4209, 4212>>,
       <<4226, 4226>>, <<4229, 4230>>, <<4237, 4237>>, <<4253, 4253>>,
       <<4348, 4348>>, <<4957, 4959>>, <<5906, 5908>>, <<5938, 5939>>,
       <<5970, 5971>>, <<6002, 6003>>, <<6068, 6069>>, <<6071, 6077>>,
       <<6086, 6086>>, <<6089, 6099>>, <<6103, 6103>>, <<6109, 6109>>,
       <<6155, 6159>>, <<6211, 6211>>, <<6277, 6278>>, <<6313, 6313>>,
       <<6432, 6434>>, <<6439, 6440>>, <<6450, 6450>>, <<6457, 6459>>,
       <<6679, 6680>>, <<6683, 6683>>, <<6742, 6742>>, <<6744, 6750>>,
       <<6752, 6752>>, <<6754, 6754>>, <<6757, 6764>>, <<6771, 6780>>,
       <<6783, 6783>>, <<6823, 6823>>, <<6832, 6862>>, <<6912, 6915>>,
       <<6964, 6964>>, <<6966, 6970>>, <<6972, 6972>>, <<6978, 6978>>,
       <<7019, 7027>>, <<7040, 7041>>, <<7074, 7077>>, <<7080, 7081>>,
       <<7083, 7085>>, <<7142, 7142>>, <<7144, 7145>>, <<7149, 7149>>,
       <<7151, 7153>>, <<7212, 7219>>, <<7222, 7223>>, <<7288, 7293>>,
       <<7376, 7378>>, <<7380, 7392>>, <<7394, 7400>>, <<7405, 7405>>,
       <<7412, 7412>>, <<7416, 7417>>, <<7468, 7530>>, <<7544, 7544>>,
       <<7579, 7679>>, <<8125, 8125>>, <<8127, 8129>>, <<8141, 8143>>,
       <<8157, 8159>>, <<8173, 8175>>, <<8189, 8190>>, <<8203, 8207>>,
       <<8216, 8217>>, <<8228, 8228>>, <<8231, 8231>>, <<8234, 8238>>,
       <<8288, 8292>>, <<8294, 8303>>, <<8305, 8305>>, <<8319, 8319>>,
       <<8336, 8348>>, <<8400, 8432>>, <<11388, 11389>>, <<11503, 11505>>,
       <<11631, 11631>>, <<11647, 11647>>, <<11744, 11775>>, <<11823, 11823>>,
       <<12293, 12293>>, <<12330, 12333>>, <<12337, 12341>>, <<12347, 12347>>,
       <<12441, 12446>>, <<12540, 12542>>, <<40981, 40981>>, <<42232, 42237>>,
       <<42508, 42508>>, <<42607, 42610>>, <<42612, 42621>>, <<42623, 42623>>,
       <<42652, 42655>>, <<42736, 42737>>, <<42752, 42785>>, <<42864, 42864>>,
       <<42888, 42890>>, <<42994, 42996>>, <<43000, 43001>>, <<43010, 43010>>,
       <<43014, 43014>>, <<43019, 43019>>, <<43045, 43046>>, <<43052, 43052>>,
       <<43204, 43205>>, <<43232, 43249>>, <<43263, 43263>>, <<43302, 43309>>,
       <<43335, 43345>>, <<43392, 43394>>, <<43443, 43443>>, <<43446, 43449>>,
       <<43452, 43453>>, <<43471, 43471>>, <<43493, 43494>>, <<43561, 43566>>,
       <<43569, 43570>>, <<43573, 43574>>, <<43587, 43587>>, <<43596, 43596>>,
       <<43632, 43632>>, <<43644, 43644>>, <<43696, 43696>>, <<43698, 43700>>,
       <<43703, 43704>>, <<43710, 43711>>, <<43713, 43713>>, <<43741, 43741>>,
       <<43756, 43757>>, <<43763, 43764>>, <<43766, 43766>>, <<43867, 43871>>,
       <<43881, 43883>>, <<44005, 44005>>, <<44008, 44008>>, <<44013, 44013>>,
       <<64286, 64286>>, <<64434, 64450>>, <<65024, 65039>>, <<65043, 65043>>,
       <<65056, 65071>>, <<65106, 65106>>, <<65109, 65109>>, <<65279, 65279>>,
       <<65287, 65287>>, <<65294, 65294>>, <<65306, 65306>>, <<65342, 65342>>,
       <<65344, 65344>>, <<65392, 65392>>, <<65438, 65439>>, <<65507, 65507>>,
       <<65529, 65531>>, <<66045, 66045>>, <<66272, 66272>>, <<66422, 66426>>,
       <<67456, 67461>>, <<67463, 67504>>, <<67506, 67514>>, <<68097, 68099>>,
       <<68101, 68102>>, <<68108, 68111>>, <<68152, 68154>>, <<68159, 68159>>,
       <<68325, 68326>>, <<68900, 68903>>, <<69291, 69292>>, <<69446, 69456>>,
       <<69506, 69509>>, <<69633, 69633>>, <<69688, 69702>>, <<69744, 69744>>,
       <<69747, 69748>>, <<69759, 69761>>, <<69811, 69814>>, <<69817, 69818>>,
       <<69821, 69821>>, <<69826, 69826>>, <<69837, 69837>>, <<69888, 69890>>,
       <<69927, 69931>>, <<69933, 69940>>, <<70003, 70003>>, <<70016, 70017>>,
       <<70070, 70078>>, <<70089, 70092>>, <<70095, 70095>>, <<70191, 70193>>,
       <<70196, 70196>>, <<70198, 70199>>, <<70206, 70206>>, <<70367, 70367>>,
       <<70371, 70378>>, <<70400, 70401>>, <<70459, 70460>>, <<70464, 70464>>,
       <<70502, 70508>>, <<70512, 70516>>, <<70712, 70719>>, <<70722, 70724>>,
       <<70726, 70726>>, <<70750, 70750>>, <<70835, 70840>>, <<70842, 70842>>,
       <<70847, 70848>>, <<70850, 70851>>, <<71090, 71093>>, <<71100, 71101>>,
       <<71103, 71104>>, <<71132, 71133>>, <<71219, 71226>>, <<71229, 71229>>,
       <<71231, 71232>>, <<71339, 71339>>, <<71341, 71341>>, <<71344, 71349>>,
       <<71351, 71351>>, <<71453, 71455>>, <<71458, 71461>>, <<71463, 71467>>,
       <<71727, 71735>>, <<71737, 71738>>, <<71995, 71996>>, <<71998, 71998>>,
       <<72003, 72003>>, <<72148, 72151>>, <<72154, 72155>>, <<72160, 72160>>,
       <<72193, 72202>>, <<72243, 72248>>, <<72251, 72254>>, <<72263, 72263>>,
       <<72273, 72278>>, <<72281, 72283>>, <<72330, 72342>>, <<72344, 72345>>,
       <<72752, 72758>>, <<72760, 72765>>, <<72767, 72767>>, <<72850, 72871>>,
       <<72874, 72880>>, <<72882, 72883>>, <<72885, 72886>>, <<73009, 73014>>,
       <<73018, 73018>>, <<73020, 73021>>, <<73023, 73029>>, <<73031, 73031>>,
       <<73104, 73105>>, <<73109, 73109>>, <<73111, 73111>>, <<73459, 73460>>,
       <<78896, 78904>>, <<92912, 92916>>, <<92976, 92982>>, <<92992, 92995>>,
       <<94031, 94031>>, <<94095, 94111>>, <<94176, 94177>>, <<94179, 94180>>,
       <<110576, 110579>>, <<110581, 110587>>, <<110589, 110590>>,
       <<113821, 113822>>, <<113824, 113827>>, <<118528, 118573>>,
       <<118576, 118598>>, <<119143, 119145>>, <<119155, 119170>>,
       <<119173, 119179>>, <<119210, 119213>>, <<119362, 119364>>,
       <<121344, 121398>>, <<121403, 121452>>, <<121461, 121461>>,
       <<121476, 121476>>, <<121499, 121503>>, <<121505, 121519>>,
       <<122880, 122886>>, <<122888, 122904>>, <<122907, 122913>>,
       <<122915, 122916>>, <<122918, 122922>>, <<123184, 123197>>,
       <<123566, 123566>>, <<123628, 123631>>, <<125136, 125142>>,
       <<125252, 125259>>, <<127995, 127999>>, <<917505, 917505>>,
       <<917536, 917631>>, <<917760, 917999>> >>

InRanges(c, rs) == \E k \in 1..Len(rs) : rs[k][1] <= c /\ c <= rs[k][2]

IsCased(c) == InRanges(c, CasedRanges)

IsCaseIgnorable(c) == InRanges(c, CaseIgnorableRanges)

\* str.lower() on one code point, apart from the two that depend on more
\* than the table
LowerChar(c) ==
    LET hit == {k \in 1..Len(LowerRuns) :
                   /\ LowerRuns[k][1] <= c
                   /\ c <= LowerRuns[k][2]
                   /\ (c - LowerRuns[k][1]) % LowerRuns[k][3] = 0}
    IN  IF hit = {} THEN c ELSE c + LowerRuns[CHOOSE k \in hit : TRUE][4]

\* whether the capital sigma at position i ends a word: the nearest code
\* point before it that is not case-ignorable is cased, and the nearest
\* one after it, if any, is not
FinalSigma(txt, i) ==
    LET before == {j \in 1..(i - 1) : ~IsCaseIgnorable(txt[j])}
        after  == {j \in (i + 1)..Len(txt) : ~IsCaseIgnorable(txt[j])}
    IN  /\ before # {}
        /\ IsCased(txt[CHOOSE j \in before : \A k \in before : k <= j])
        /\ \/ after = {}
           \/ ~IsCased(txt[CHOOSE j \in after : \A k \in after : j <= k])

\* what str.lower() puts for the code point at position i: the capital
\* sigma (931) becomes the final or the medial small sigma, the capital I
\* with a dot above (304) becomes i and a combining dot, any other code
\* point its image in the table
LowerAt(txt, i) ==
    IF txt[i] = 931 THEN <<IF FinalSigma(txt, i) THEN 962 ELSE 963>>
    ELSE IF txt[i] = 304 THEN <<105, 775>>
    ELSE <<LowerChar(txt[i])>>

RECURSIVE LowerFrom(_, _)
LowerFrom(txt, i) ==
    IF i > Len(txt) THEN <<>> ELSE LowerAt(txt, i) \o LowerFrom(txt, i + 1)

\* str.lower(), lines 93 / 97
LowerCaseSensitive(txt) == txt
Lower(txt) == LowerFrom(txt, 1)

\* the string txt as the log writes it
RECURSIVE Text(_)
Text(txt) == IF txt = <<>> THEN "" ELSE Chr(Head(txt)) \o Text(Tail(txt))

\* input_text.lower() == "quit", lines 93 / 97
IsQuit(txt) == Lower(txt) = Codes(<<"q", "u", "i", "t">>)

\* the input() calls made so far
NumInputs == Len(Calls("input"))

\* f"image_{img_no}.png", dalle-client line 136
FileName(n) == "image_" \o ToString(n) \o ".png"

\* os.getcwd(), dalle-client line 171
Cwd == "/home/user/dalle-client"

\* os.path.join(os.path.join(os.getcwd(), 'images'), file_name), lines 171, 184
ImagePath(file) == Cwd \o "/" \o "images" \o "/" \o file

\* what the chat model can answer
Responses == {"It is a dragon fruit."}

\* every variable but pc, log, exc and the locals of the interactive scripts
idle == <<otherLabs, trainVars, files, image, preds, classified>>

---------------------------------------------------------------------------
(* dalle-client.py, main (lines 28-148) and save_image (lines 171-199) *)

DcInit ==
    /\ pc = "dc_main"
    /\ iteration = NoJob
    /\ job = NoJob
    /\ settled = FALSE
    /\ log = <<>>
    /\ clock = 0
    /\ exc = NoError
    /\ tags = <<>>
    /\ tagIdx = 0
    /\ images = 0
    /\ iterId = NoJob
    /\ jobId = NoJob
    /\ imgNo = 0
    /\ inputText = <<>>
    /\ prompt = <<>>
    /\ files = <<>>
    /\ image = ""
    /\ preds = <<>>
    /\ classified = <<>>
    /\ OtherLabsIdle

\* raise inside the try block of line 28: control moves to line 147
DcRaise(e) == /\ exc' = e
              /\ pc' = "dc_except"

\* lines 28-83: configuration, credential, client, img_no = 0
DcSetupOk ==
    /\ pc = "dc_main"
    /\ imgNo' = 0
    /\ Emit("AzureOpenAI", "", TRUE, 72)
    /\ pc' = "dc_input"
    /\ UNCHANGED <<idle, exc, inputText, prompt>>

DcSetupRaise ==
    /\ pc = "dc_main"
    /\ \E e \in Errors :
        /\ Emit("AzureOpenAI", ErrorText(e), FALSE, 72)
        /\ DcRaise(e)
    /\ UNCHANGED <<idle, imgNo, inputText, prompt>>

\* line 90
DcInput ==
    /\ pc = "dc_input"
    /\ NumInputs < MaxInputs
    /\ \E txt \in Inputs :
        /\ inputText' = txt
        /\ Emit("input", Text(txt), TRUE, 90)
    /\ pc' = "dc_check"
    /\ UNCHANGED <<idle, exc, imgNo, prompt>>

\* line 90 raises (end of input)
DcInputRaise ==
    /\ pc = "dc_input"
    /\ NumInputs < MaxInputs
    /\ \E e \in Errors :
        /\ Emit("input", ErrorText(e), FALSE, 90)
        /\ DcRaise(e)
    /\ UNCHANGED <<idle, imgNo, inputText, prompt>>

\* lines 93-94: break, the try block ends, main returns
DcQuit ==
    /\ pc = "dc_check"
    /\ IsQuit(inputText)
    /\ pc' = "done"
    /\ UNCHANGED <<idle, log, exc, imgNo, inputText, prompt>>

\* lines 98-100
DcEmpty ==
    /\ pc = "dc_check"
    /\ ~IsQuit(inputText)
    /\ Len(inputText) = 0
    /\ Emit("print", "Please enter a prompt.", TRUE, 99)
    /\ pc' = "dc_input"
    /\ UNCHANGED <<idle, exc, imgNo, inputText, prompt>>

\* a generation whose image keeps the number of the one before
DcGenerateOkNoIncrement ==
    /\ pc = "dc_check"
    /\ ~IsQuit(inputText)
    /\ Len(inputText) # 0
    /\ Emit("images.generate", Text(inputText), TRUE, 110)
    /\ pc' = "dc_save"
    /\ UNCHANGED <<idle, exc, imgNo, inputText, prompt>>

\* lines 110-132: the image is generated, its url is read from the
\* response, img_no += 1
DcGenerateOk ==
    /\ pc = "dc_check"
    /\ ~IsQuit(inputText)
    /\ Len(inputText) # 0
    /\ Emit("images.generate", Text(inputText), TRUE, 110)
    /\ imgNo' = imgNo + 1
    /\ pc' = "dc_save"
    /\ UNCHANGED <<idle, exc, inputText, prompt>>

\* a failed generation that is issued again
DcGenerateRetry ==
    /\ pc = "dc_check"
    /\ ~IsQuit(inputText)
    /\ Len(inputText) # 0
    /\ Len(Calls("images.generate")) < MaxInputs
    /\ \E e \in Errors : Emit("images.generate", ErrorText(e), FALSE, 110)
    /\ UNCHANGED <<idle, pc, exc, imgNo, inputText, prompt>>

\* line 110 raises
DcGenerateRaise ==
    /\ pc = "dc_check"
    /\ ~IsQuit(inputText)
    /\ Len(inputText) # 0
    /\ \E e \in Errors :
        /\ Emit("images.generate", ErrorText(e), FALSE, 110)
        /\ DcRaise(e)
    /\ UNCHANGED <<idle, imgNo, inputText, prompt>>

\* lines 110-126: images.generate returns, but its response cannot be
\* read: it is not JSON (json.loads, line 119) or its data list is empty
\* (data[0], line 126); control leaves the loop before img_no += 1
DcResponseRaise ==
    /\ pc = "dc_check"
    /\ ~IsQuit(inputText)
    /\ Len(inputText) # 0
    /\ \/ /\ EmitAll(<< Ev("images.generate", Text(inputText), TRUE, 110),
                         Ev("json.loads", ErrorText(JSONDecodeError), FALSE, 119) >>)
          /\ DcRaise(JSONDecodeError)
       \/ /\ EmitAll(<< Ev("images.generate", Text(inputText), TRUE, 110),
                         Ev("data[0]", ErrorText(IndexError), FALSE, 126) >>)
          /\ DcRaise(IndexError)
    /\ UNCHANGED <<idle, imgNo, inputText, prompt>>

\* lines 136-142: file_name = f"image_{img_no}.png"; save_image is called
DcSaveCall ==
    /\ pc = "dc_save"
    /\ Emit("save_image", FileName(imgNo), TRUE, 142)
    /\ pc' = "dc_download"
    /\ UNCHANGED <<idle, exc, imgNo, inputText, prompt>>

\* lines 171-189: images directory, requests.get(image_url).content
DcDownloadOk ==
    /\ pc = "dc_download"
    /\ Emit("requests.get", "", TRUE, 189)
    /\ pc' = "dc_write"
    /\ UNCHANGED <<idle, exc, imgNo, inputText, prompt>>

DcDownloadRaise ==
    /\ pc = "dc_download"
    /\ \E e \in Errors :
        /\ Emit("requests.get", ErrorText(e), FALSE, 189)
        /\ DcRaise(e)
    /\ UNCHANGED <<idle, imgNo, inputText, prompt>>

\* lines 194-196: the image is written to images/<file_name>
DcWriteOk ==
    /\ pc = "dc_write"
    /\ Emit("write", ImagePath(FileName(imgNo)), TRUE, 194)
    /\ pc' = "dc_saved"
    /\ UNCHANGED <<idle, exc, imgNo, inputText, prompt>>

DcWriteRaise ==
    /\ pc = "dc_write"
    /\ \E e \in Errors :
        /\ Emit("write", ErrorText(e), FALSE, 194)
        /\ DcRaise(e)
    /\ UNCHANGED <<idle, imgNo, inputText, prompt>>

\* line 199; save_image returns, the loop goes back to line 90
DcPrintSaved ==
    /\ pc = "dc_saved"
    /\ Emit("print", "Image saved as " \o ImagePath(FileName(imgNo)), TRUE, 199)
    /\ pc' = "dc_input"
    /\ UNCHANGED <<idle, exc, imgNo, inputText, prompt>>

\* lines 147-148
DcExcept ==
    /\ pc = "dc_except"
    /\ Emit("print", ErrorText(exc), TRUE, 148)
    /\ pc' = "done"
    /\ UNCHANGED <<idle, exc, imgNo, inputText, prompt>>

DcNext ==
    \/ DcSetupOk
    \/ DcSetupRaise
    \/ DcInput
    \/ DcInputRaise
    \/ DcQuit
    \/ DcEmpty
    \/ DcGenerateOk
    \/ DcGenerateRaise
    \/ DcResponseRaise
    \/ DcSaveCall
    \/ DcDownloadOk
    \/ DcDownloadRaise
    \/ DcWriteOk
    \/ DcWriteRaise
    \/ DcPrintSaved
    \/ DcExcept

---------------------------------------------------------------------------
(* chat-app.py, main (lines 30-141) *)

CaInit ==
    /\ pc = "ca_main"
    /\ iteration = NoJob
    /\ job = NoJob
    /\ settled = FALSE
    /\ log = <<>>
    /\ clock = 0
    /\ exc = NoError
    /\ tags = <<>>
    /\ tagIdx = 0
    /\ images = 0
    /\ iterId = NoJob
    /\ jobId = NoJob
    /\ imgNo = 0
    /\ inputText = <<>>
    /\ prompt = <<>>
    /\ files = <<>>
    /\ image = ""
    /\ preds = <<>>
    /\ classified = <<>>
    /\ OtherLabsIdle

\* raise inside the try block of line 30: control moves to line 140
CaRaise(e) == /\ exc' = e
              /\ pc' = "ca_except"

\* lines 30-87: configuration, project client, openai client, prompt = ""
CaSetupOk ==
    /\ pc = "ca_main"
    /\ prompt' = <<>>
    /\ Emit("get_openai_client", "", TRUE, 73)
    /\ pc' = "ca_input"
    /\ UNCHANGED <<idle, exc, imgNo, inputText>>

CaSetupRaise ==
    /\ pc = "ca_main"
    /\ \E e \in Errors :
        /\ Emit("get_openai_client", ErrorText(e), FALSE, 73)
        /\ CaRaise(e)
    /\ UNCHANGED <<idle, imgNo, inputText, prompt>>

\* line 94
CaInput ==
    /\ pc = "ca_input"
    /\ NumInputs < MaxInputs
    /\ \E txt \in Inputs :
        /\ prompt' = txt
        /\ Emit("input", Text(txt), TRUE, 94)
    /\ pc' = "ca_check"
    /\ UNCHANGED <<idle, exc, imgNo, inputText>>

\* line 94 raises (end of input)
CaInputRaise ==
    /\ pc = "ca_input"
    /\ NumInputs < MaxInputs
    /\ \E e \in Errors :
        /\ Emit("input", ErrorText(e), FALSE, 94)
        /\ CaRaise(e)
    /\ UNCHANGED <<idle, imgNo, inputText, prompt>>

\* lines 97-98: break, the try block ends, main returns
CaQuit ==
    /\ pc = "ca_check"
    /\ IsQuit(prompt)
    /\ pc' = "done"
    /\ UNCHANGED <<idle, log, exc, imgNo, inputText, prompt>>

\* lines 101-102
CaEmpty ==
    /\ pc = "ca_check"
    /\ ~IsQuit(prompt)
    /\ Len(prompt) = 0
    /\ Emit("print", "Please enter a question.\n", TRUE, 102)
    /\ pc' = "ca_input"
    /\ UNCHANGED <<idle, exc, imgNo, inputText, prompt>>

\* lines 105-106
CaGetting ==
    /\ pc = "ca_check"
    /\ ~IsQuit(prompt)
    /\ Len(prompt) # 0
    /\ Emit("print", "Getting a response ...\n", TRUE, 106)
    /\ pc' = "ca_read"
    /\ UNCHANGED <<idle, exc, imgNo, inputText, prompt>>

\* lines 114-123: the image file is read and encoded
CaReadOk ==
    /\ pc = "ca_read"
    /\ Emit("open", "mystery-fruit.jpeg", TRUE, 119)
    /\ pc' = "ca_create"
    /\ UNCHANGED <<idle, exc, imgNo, inputText, prompt>>

CaReadRaise ==
    /\ pc = "ca_read"
    /\ \E e \in Errors :
        /\ Emit("open", ErrorText(e), FALSE, 119)
        /\ CaRaise(e)
    /\ UNCHANGED <<idle, imgNo, inputText, prompt>>

\* lines 124-134: the completion is requested and its content printed; the
\* loop goes back to line 94
CaCreateOk ==
    /\ pc = "ca_create"
    /\ \E answer \in Responses :
        log' = Append(Append(log, Ev("chat.completions.create", Text(prompt), TRUE, 124)),
                      Ev("print", answer, TRUE, 134))
    /\ pc' = "ca_input"
    /\ UNCHANGED <<idle, exc, imgNo, inputText, prompt>>

CaCreateRaise ==
    /\ pc = "ca_create"
    /\ \E e \in Errors :
        /\ Emit("chat.completions.create", ErrorText(e), FALSE, 124)
        /\ CaRaise(e)
    /\ UNCHANGED <<idle, imgNo, inputText, prompt>>

\* lines 124-134: the completion is returned with an empty list of
\* choices, and choices[0] raises before anything is printed
CaChoicesRaise ==
    /\ pc = "ca_create"
    /\ EmitAll(<< Ev("chat.completions.create", Text(prompt), TRUE, 124),
                  Ev("choices[0]", ErrorText(IndexError), FALSE, 134) >>)
    /\ CaRaise(IndexError)
    /\ UNCHANGED <<idle, imgNo, inputText, prompt>>

\* lines 140-141
CaExcept ==
    /\ pc = "ca_except"
    /\ Emit("print", ErrorText(exc), TRUE, 141)
    /\ pc' = "done"
    /\ UNCHANGED <<idle, exc, imgNo, inputText, prompt>>

CaNext ==
    \/ CaSetupOk
    \/ CaSetupRaise
    \/ CaInput
    \/ CaInputRaise
    \/ CaQuit
    \/ CaEmpty
    \/ CaGetting
    \/ CaReadOk
    \/ CaReadRaise
    \/ CaCreateOk
    \/ CaCreateRaise
    \/ CaChoicesRaise
    \/ CaExcept

---------------------------------------------------------------------------
(* One session of either interactive script *)

InteractiveInit == DcInit \/ CaInit

InteractiveNext == DcNext \/ CaNext

InteractiveSpec == InteractiveInit /\ [][InteractiveNext]_vars

---------------------------------------------------------------------------
(* What the call log of an interactive session says *)

\* the calls to the image or chat service, dalle-client 110 / chat-app 124
IsApiCall(e) == e.op \in {"images.generate", "chat.completions.create"}

\* the position of the first input() call after position i, or one past the
\* end of the log when no prompt has been read since
NextInput(i) ==
    LET later == {j \in (i + 1)..Len(log) : log[j].op = "input"}
    IN  IF later = {} THEN Len(log) + 1
        ELSE CHOOSE j \in later : \A k \in later : j <= k

\* the positions of what the program did with the input read at position i
Handling(i) == (i + 1)..(NextInput(i) - 1)

\* quit as the user can spell it in capital and small letters
QuitTexts == {Text(q) : q \in QuitSpellings}

\* the service call that belongs to the script that read the input at line n
ApiOf(n) == IF n = 90 THEN "images.generate" ELSE "chat.completions.create"

\* the reminder that belongs to the script that read the input at line n
ReminderOf(n) ==
    IF n = 90 THEN Ev("print", "Please enter a prompt.", TRUE, 99)
    ELSE Ev("print", "Please enter a question.\n", TRUE, 102)

\* C18: an input that spells quit in any of its sixteen letter cases is
\* the last thing the session logs and ends the loop with no service call; an
\* empty input is
\* answered by the reminder alone, with no service call, and the prompt is
\* read again; any other input gets at most one service call, of the
\* script's own kind and carrying that input, and exactly one successful
\* such call has been made by the time the next prompt is read.
C18_InputLoopDispatch ==
    \A i \in 1..Len(log) :
        (log[i].op = "input" /\ log[i].ok) =>
            LET a    == log[i].arg
                seg  == Handling(i)
                api  == {j \in seg : IsApiCall(log[j])}
                more == NextInput(i) <= Len(log)
            IN  /\ a \in QuitTexts =>
                    /\ i = Len(log)
                    /\ pc \in {"dc_check", "ca_check", "done"}
                /\ a = "" =>
                    /\ api = {}
                    /\ \A j \in seg : j = i + 1 /\ log[j] = ReminderOf(log[i].at)
                    /\ (more \/ pc \in {"dc_input", "ca_input"}) => seg = {i + 1}
                /\ (a # "" /\ a \notin QuitTexts) =>
                    /\ Cardinality(api) <= 1
                    /\ \A j \in api : /\ log[j].op = ApiOf(log[i].at)
                                      /\ log[j].ok => log[j].arg = a
                    /\ (more \/ pc \in {"dc_input", "ca_input"}) =>
                           \E j \in api : log[j].ok /\ log[j].arg = a

\* a chat session that was given an empty input, then a question, then QUIT
C18_Witness ==
    /\ pc = "done"
    /\ exc = NoError
    /\ \E i, j, k \in 1..Len(log) :
        /\ i < j /\ j < k
        /\ log[i].op = "input" /\ log[i].arg = ""
        /\ log[i + 1] = ReminderOf(94)
        /\ log[j].op = "chat.completions.create" /\ log[j].ok /\ log[j].arg = "Apple"
        /\ log[k].op = "input" /\ log[k].arg = "QUIT"
        /\ k = Len(log)

\* a dalle-client session given QU\u{130}T, which lower() does not turn
\* into quit: the image is generated and saved
C18_WitnessDotted ==
    \E i, j \in 1..Len(log) :
        /\ i < j
        /\ log[i].op = "input" /\ log[i].arg = "QU\\u{130}T"
        /\ log[j].op = "images.generate" /\ log[j].ok /\ log[j].arg = "QU\\u{130}T"
        /\ pc = "dc_input"

\* the save_image calls of the session, in order (dalle-client line 142)
Saves == Calls("save_image")

\* the images.generate calls that returned (dalle-client lines 110-114)
Generated == SelectSeq(Calls("images.generate"), LAMBDA e : e.ok)

\* the positions of the images.generate calls whose response could not be
\* read (dalle-client lines 119, 126)
Unread == {i \in 1..Len(log) : ~log[i].ok /\ log[i].op \in {"json.loads", "data[0]"}}

\* C19 as stated: img_no always equals the number of images.generate calls
\* that returned, the k-th saved file is image_k.png, and img_no changes
\* only by one, together with such a call.
C19_Original_CounterCountsCalls ==
    /\ [](/\ imgNo = Len(Generated)
          /\ Len(Saves) = IF pc = "dc_save" THEN imgNo - 1 ELSE imgNo
          /\ \A k \in 1..Len(Saves) :
                Saves[k].arg = "image_" \o ToString(k) \o ".png")
    /\ [][imgNo' # imgNo =>
            /\ imgNo' = imgNo + 1
            /\ \E e \in {log'[Len(log')]} :
                /\ log' = Append(log, e)
                /\ e.op = "images.generate"
                /\ e.ok]_vars

\* C19 amended: the k-th image passed to save_image is named image_k.png
\* and written to images/image_k.png; img_no is 0 before the first
\* generation and always equals the number of images.generate calls that
\* returned a response the program could read; a call whose response cannot
\* be read is the last of the session and leaves img_no alone, as an empty
\* prompt does; img_no changes only by one, together with a call that
\* returned; the names of one session differ pairwise.
C19_FilesNumberedFromOne ==
    /\ [](/\ imgNo = Len(Generated) - Cardinality(Unread)
          /\ \A i \in Unread :
                /\ i > 1
                /\ log[i - 1].op = "images.generate" /\ log[i - 1].ok
                /\ Len(log) <= i + 1
                /\ Unread = {i}
          /\ Len(Saves) = IF pc = "dc_save" THEN imgNo - 1 ELSE imgNo
          /\ \A k \in 1..Len(Saves) :
                Saves[k].arg = "image_" \o ToString(k) \o ".png"
          /\ \A j, k \in 1..Len(Saves) : j # k => Saves[j].arg # Saves[k].arg
          /\ \A k \in 1..Len(Calls("write")) :
                Calls("write")[k].ok =>
                    Calls("write")[k].arg =
                        Cwd \o "/images/image_" \o ToString(k) \o ".png")
    /\ [][imgNo' # imgNo =>
            /\ imgNo' = imgNo + 1
            /\ \E e \in {log'[Len(log')]} :
                /\ log' = Append(log, e)
                /\ e.op = "images.generate"
                /\ e.ok]_vars
    /\ [][(log' # log /\ log'[Len(log')].op = "print" /\ log'[Len(log')].at = 99)
            => imgNo' = imgNo]_vars

\* one image saved, then a generation whose response had no image: two
\* calls returned, img_no is still 1
C19_Witness ==
    /\ pc = "done"
    /\ imgNo = 1
    /\ Len(Generated) = 2
    /\ \E i, j \in 1..Len(log) :
        /\ i < j
        /\ log[i].op = "save_image" /\ log[i].arg = "image_1.png"
        /\ log[j].op = "data[0]" /\ ~log[j].ok /\ log[j].at = 126

\* two images saved in one session, with an empty prompt between them
C19_WitnessTwoSaved ==
    \E i, j, k \in 1..Len(log) :
        /\ i < j /\ j < k
        /\ log[i].op = "save_image" /\ log[i].arg = "image_1.png"
        /\ log[j].op = "input" /\ log[j].ok /\ log[j].arg = ""
        /\ log[k].op = "save_image" /\ log[k].arg = "image_2.png"
        /\ imgNo = 2

\* the print of the except clause, dalle-client line 148 / chat-app line 141
IsExceptPrint(e) == e.op = "print" /\ e.at \in {148, 141}

\* C20: once a call has raised (a service call, the download, a file
\* operation, or any other call inside the try block), the session logs
\* nothing more than one print of that error by the except clause: the
\* failed call is not issued again and no prompt is read; the handler does
\* nothing but that print, after which main has returned and no step is
\* left.
C20_ExceptEndsSession ==
    /\ [](/\ \A i \in 1..Len(log) :
                ~log[i].ok =>
                    /\ Len(log) <= i + 1
                    /\ exc # NoError /\ ErrorText(exc) = log[i].arg
                    /\ pc = (IF Len(log) = i
                             THEN (IF \/ log[i].at \in {72, 90, 110, 126, 189, 194}
                                      \/ log[i].op = "json.loads"
                                   THEN "dc_except" ELSE "ca_except")
                             ELSE "done")
                    /\ Len(log) = i + 1 =>
                          /\ IsExceptPrint(log[i + 1])
                          /\ log[i + 1].arg = log[i].arg
          /\ Len(SelectSeq(log, IsExceptPrint)) <= 1
          /\ pc = "done" => ~ENABLED InteractiveNext)
    /\ [][(pc = "dc_except" \/ pc = "ca_except") =>
            /\ pc' = "done"
            /\ \E e \in {log'[Len(log')]} :
                /\ log' = Append(log, e)
                /\ IsExceptPrint(e)
                /\ ErrorText(exc) = e.arg]_vars

\* a chat session whose second question failed in chat.completions.create
C20_Witness ==
    /\ pc = "done"
    /\ \E i \in 1..Len(log) :
        /\ log[i].op = "chat.completions.create" /\ ~log[i].ok
        /\ Len(log) = i + 1
        /\ log[i + 1] = Ev("print", log[i].arg, TRUE, 141)
        /\ \E j \in 1..i : log[j].op = "chat.completions.create" /\ log[j].ok

\* a dalle-client session whose download failed after a generated image
C20_WitnessDownload ==
    /\ pc = "done"
    /\ \E i \in 1..Len(log) :
        /\ log[i].op = "requests.get" /\ ~log[i].ok
        /\ Len(log) = i + 1
        /\ log[i + 1] = Ev("print", log[i].arg, TRUE, 148)

---------------------------------------------------------------------------
(* add-tagged-images.py: bounds and values                                  *)

\* most elements of "files" in tagged-images.json
MaxFiles == 2
\* most elements of "tags" of one file in tagged-images.json
MaxRegions == 2

\* tags of the project: objects with a name and an id
TagApple == [name |-> "apple", id |-> "7f3c-apple-id"]
TagBanana == [name |-> "banana", id |-> "a91e-banana-id"]

\* what get_tags can return (line 108): the project has both tags, listed
\* in the service's order, or only one of them
ProjectTagLists == { <<TagBanana, TagApple>>, <<TagApple>> }

\* elements of a file's "tags" in tagged-images.json; the box values are
\* the JSON numbers in thousandths
JsonTags ==
    { [tag |-> "apple", left |-> 100, top |-> 200, width |-> 300, height |-> 400],
      [tag |-> "banana", left |-> 250, top |-> 50, width |-> 500, height |-> 125] }

\* every sequence over S of length at most n
SeqsUpTo(S, n) == UNION {[1..k -> S] : k \in 0..n}

\* "filename" of the i-th element of "files"
ImageFileName(i) == "image" \o ToString(i) \o ".jpg"

\* what json.load can return for tagged_images['files'] (line 119)
TaggedImagesFiles ==
    UNION { { [i \in 1..k |-> [filename |-> ImageFileName(i), tags |-> f[i]]] :
                f \in [1..k -> SeqsUpTo(JsonTags, MaxRegions)] } :
            k \in 0..MaxFiles }

\* image.status values of an upload result
ImageStatuses == {"OK", "ErrorImageFormat"}

\* what create_images_from_files can return for a batch of n images
UploadResults(n) ==
    {[is_batch_successful |-> TRUE, images |-> [i \in 1..n |-> "OK"]]}
    \cup {[is_batch_successful |-> FALSE, images |-> st] : st \in [1..n -> ImageStatuses]}

\* the positions of the tags named name in the list get_tags returned
TagPositions(name) == {i \in 1..Len(projectTags) : projectTags[i].name = name}

\* next(t for t in tags if t.name == tag_name).id, line 140: the id of the
\* first tag of that name
TagId(name) ==
    projectTags[CHOOSE i \in TagPositions(name) : \A j \in TagPositions(name) : i <= j].id

\* Region(tag_id=..., left=..., top=..., width=..., height=...), lines 147-151
Region(tag_id, left, top, width, height) ==
    [tag_id |-> tag_id, left |-> left, top |-> top, width |-> width, height |-> height]

\* the regions list after the loop of line 132 has run over the first n
\* elements of jsonTags
RegionsOf(jsonTags, n) ==
    [k \in 1..n |-> Region(TagId(jsonTags[k].tag), jsonTags[k].left, jsonTags[k].top,
                           jsonTags[k].width, jsonTags[k].height)]

\* the elements of jsonTags whose tag the project does not have
Unknown(jsonTags) == {k \in 1..Len(jsonTags) : TagPositions(jsonTags[k].tag) = {}}

\* image_data.read() of os.path.join(folder, file), lines 156-158
Contents(file) == "bytes of images/" \o file

\* ImageFileCreateEntry(name=..., contents=..., regions=...), lines 157-159
ImageFileCreateEntry(name, contents, rs) ==
    [name |-> name, contents |-> contents, regions |-> rs]

\* next() on an exhausted generator raises StopIteration, whose str is empty
StopIteration == [type |-> "StopIteration", msg |-> ""]

\* print("Image status: ", image.status), line 177
ImageStatusLine(st) == "Image status: " \o " " \o st

---------------------------------------------------------------------------
(* add-tagged-images.py, main (lines 38-67) and Upload_Images (102-180) *)

AtInit ==
    /\ pc = "at_main"
    /\ iteration = NoJob
    /\ job = NoJob
    /\ settled = FALSE
    /\ log = <<>>
    /\ clock = 0
    /\ exc = NoError
    /\ tags = <<>>
    /\ tagIdx = 0
    /\ images = 0
    /\ iterId = NoJob
    /\ jobId = NoJob
    /\ imgNo = 0
    /\ inputText = <<>>
    /\ prompt = <<>>
    /\ files = <<>>
    /\ image = ""
    /\ preds = <<>>
    /\ classified = <<>>
    /\ OtherLabsIdle

\* every variable add-tagged-images does not have
atIdle == <<trainVars, imgNo, inputText, prompt, files, image, preds, classified,
            afVars, rtVars, image_file>>

\* raise inside the try block of line 38: control moves to line 65
AtRaise(e) == /\ exc' = e
              /\ pc' = "at_except"

\* lines 38-60
AtGetProjectOk ==
    /\ pc = "at_main"
    /\ Emit("get_project", "", TRUE, 60)
    /\ pc' = "at_Upload_Images"
    /\ UNCHANGED <<atIdle, atVars, exc>>

AtGetProjectRaise ==
    /\ pc = "at_main"
    /\ \E e \in Errors :
        /\ Emit("get_project", ErrorText(e), FALSE, 60)
        /\ AtRaise(e)
    /\ UNCHANGED <<atIdle, atVars>>

\* lines 64, 102
AtUploadStart ==
    /\ pc = "at_Upload_Images"
    /\ Emit("print", UploadingLine, TRUE, 102)
    /\ pc' = "at_get_tags"
    /\ UNCHANGED <<atIdle, atVars, exc>>

\* lines 108-113
AtGetTagsOk ==
    /\ pc = "at_get_tags"
    /\ \E tl \in ProjectTagLists : projectTags' = tl
    /\ tagged_images_with_regions' = <<>>
    /\ Emit("get_tags", "", TRUE, 108)
    /\ pc' = "at_load"
    /\ UNCHANGED <<atIdle, exc, tagged_images, fileNo, regions, upload_result>>

AtGetTagsRaise ==
    /\ pc = "at_get_tags"
    /\ \E e \in Errors :
        /\ Emit("get_tags", ErrorText(e), FALSE, 108)
        /\ AtRaise(e)
    /\ UNCHANGED <<atIdle, atVars>>

\* lines 118-119
AtLoadOk ==
    /\ pc = "at_load"
    /\ \E doc \in TaggedImagesFiles : tagged_images' = doc
    /\ fileNo' = 0
    /\ Emit("json.load", "tagged-images.json", TRUE, 119)
    /\ pc' = "at_for"
    /\ UNCHANGED <<atIdle, exc, projectTags, regions, tagged_images_with_regions,
                   upload_result>>

AtLoadRaise ==
    /\ pc = "at_load"
    /\ \E e \in Errors :
        /\ Emit("json.load", ErrorText(e), FALSE, 119)
        /\ AtRaise(e)
    /\ UNCHANGED <<atIdle, atVars>>

\* a file loop that keeps the regions of the file before
AtRegionsKeep ==
    /\ pc = "at_for"
    /\ fileNo < Len(tagged_images)
    /\ Unknown(tagged_images[fileNo + 1].tags) = {}
    /\ fileNo' = fileNo + 1
    /\ regions' = regions \o RegionsOf(tagged_images[fileNo + 1].tags,
                                       Len(tagged_images[fileNo + 1].tags))
    /\ pc' = "at_read"
    /\ UNCHANGED <<atIdle, log, exc, projectTags, tagged_images,
                   tagged_images_with_regions, upload_result>>

\* lines 122-151: the next file, regions = [], one Region appended per tag
AtRegions ==
    /\ pc = "at_for"
    /\ fileNo < Len(tagged_images)
    /\ Unknown(tagged_images[fileNo + 1].tags) = {}
    /\ fileNo' = fileNo + 1
    /\ regions' = RegionsOf(tagged_images[fileNo + 1].tags,
                            Len(tagged_images[fileNo + 1].tags))
    /\ pc' = "at_read"
    /\ UNCHANGED <<atIdle, log, exc, projectTags, tagged_images,
                   tagged_images_with_regions, upload_result>>

\* line 140 raises StopIteration at the first tag the project does not have
AtRegionsRaise ==
    /\ pc = "at_for"
    /\ fileNo < Len(tagged_images)
    /\ Unknown(tagged_images[fileNo + 1].tags) # {}
    /\ fileNo' = fileNo + 1
    /\ LET ts    == tagged_images[fileNo + 1].tags
           first == CHOOSE k \in Unknown(ts) : \A j \in Unknown(ts) : k <= j
       IN  /\ regions' = RegionsOf(ts, first - 1)
           /\ Emit("next", ts[first].tag, FALSE, 140)
    /\ AtRaise(StopIteration)
    /\ UNCHANGED <<atIdle, projectTags, tagged_images, tagged_images_with_regions,
                   upload_result>>

\* lines 156-159
AtReadOk ==
    /\ pc = "at_read"
    /\ tagged_images_with_regions' =
          Append(tagged_images_with_regions,
                 ImageFileCreateEntry(tagged_images[fileNo].filename,
                                      Contents(tagged_images[fileNo].filename),
                                      regions))
    /\ Emit("open", tagged_images[fileNo].filename, TRUE, 156)
    /\ pc' = "at_for"
    /\ UNCHANGED <<atIdle, exc, projectTags, tagged_images, fileNo, regions,
                   upload_result>>

AtReadRaise ==
    /\ pc = "at_read"
    /\ \E e \in Errors :
        /\ Emit("open", ErrorText(e), FALSE, 156)
        /\ AtRaise(e)
    /\ UNCHANGED <<atIdle, atVars>>

\* lines 165-166
AtCreateOk ==
    /\ pc = "at_for"
    /\ fileNo = Len(tagged_images)
    /\ \E r \in UploadResults(Len(tagged_images_with_regions)) : upload_result' = r
    /\ Emit("create_images_from_files", "", TRUE, 165)
    /\ pc' = "at_result"
    /\ UNCHANGED <<atIdle, exc, projectTags, tagged_images, fileNo, regions,
                   tagged_images_with_regions>>

AtCreateRaise ==
    /\ pc = "at_for"
    /\ fileNo = Len(tagged_images)
    /\ \E e \in Errors :
        /\ Emit("create_images_from_files", ErrorText(e), FALSE, 165)
        /\ AtRaise(e)
    /\ UNCHANGED <<atIdle, atVars>>

\* a failure report that stops at the headline
AtPrintFailedOnly ==
    /\ pc = "at_result"
    /\ ~upload_result.is_batch_successful
    /\ EmitAll(<<Ev("print", "Image batch upload failed.", TRUE, 173)>>)
    /\ pc' = "done"
    /\ UNCHANGED <<atIdle, atVars, exc>>

\* lines 171-177: the headline, then one line per image of the result
AtPrintFailed ==
    /\ pc = "at_result"
    /\ ~upload_result.is_batch_successful
    /\ EmitAll(<<Ev("print", "Image batch upload failed.", TRUE, 173)>>
               \o [i \in 1..Len(upload_result.images) |->
                      Ev("print", ImageStatusLine(upload_result.images[i]), TRUE, 177)])
    /\ pc' = "done"
    /\ UNCHANGED <<atIdle, atVars, exc>>

\* lines 178-180
AtPrintUploaded ==
    /\ pc = "at_result"
    /\ upload_result.is_batch_successful
    /\ Emit("print", "Images uploaded.", TRUE, 180)
    /\ pc' = "done"
    /\ UNCHANGED <<atIdle, atVars, exc>>

\* lines 65-67
AtExcept ==
    /\ pc = "at_except"
    /\ Emit("print", ErrorText(exc), TRUE, 67)
    /\ pc' = "done"
    /\ UNCHANGED <<atIdle, atVars, exc>>

AtNext ==
    \/ AtGetProjectOk
    \/ AtGetProjectRaise
    \/ AtUploadStart
    \/ AtGetTagsOk
    \/ AtGetTagsRaise
    \/ AtLoadOk
    \/ AtLoadRaise
    \/ AtRegions
    \/ AtRegionsRaise
    \/ AtReadOk
    \/ AtReadRaise
    \/ AtCreateOk
    \/ AtCreateRaise
    \/ AtPrintFailed
    \/ AtPrintUploaded
    \/ AtExcept

AtSpec == AtInit /\ [][AtNext]_vars

---------------------------------------------------------------------------
(* What a run of add-tagged-images says *)

\* create_images_from_files has been called (line 165)
BatchSent == \E i \in 1..Len(log) : log[i].op = "create_images_from_files"

\* C21: the batch handed to create_images_from_files has one entry per
\* element of "files", in file order and under the file's name; the entry
\* of a file has one Region per element of the file's "tags", in order,
\* whose tag_id is the id of the project tag of that name and whose left,
\* top, width and height are the values of the JSON element. The call is
\* reached whenever no tag name is missing and no file fails to open: the
\* only raise of the region loop is for a tag name the project lacks.
C21_BatchMirrorsJson ==
    /\ BatchSent =>
        /\ Len(tagged_images_with_regions) = Len(tagged_images)
        /\ \A i \in 1..Len(tagged_images) :
            LET entry == tagged_images_with_regions[i]
                file  == tagged_images[i]
            IN  /\ entry.name = file.filename
                /\ Len(entry.regions) = Len(file.tags)
                /\ \A k \in 1..Len(file.tags) :
                    /\ \E t \in {projectTags[p] : p \in 1..Len(projectTags)} :
                          t.name = file.tags[k].tag /\ t.id = entry.regions[k].tag_id
                    /\ entry.regions[k].left = file.tags[k].left
                    /\ entry.regions[k].top = file.tags[k].top
                    /\ entry.regions[k].width = file.tags[k].width
                    /\ entry.regions[k].height = file.tags[k].height
    /\ \A i \in 1..Len(log) :
          (log[i].op = "next" /\ ~log[i].ok) =>
              \A t \in {projectTags[p] : p \in 1..Len(projectTags)} : t.name # log[i].arg
    /\ (pc = "at_for" /\ fileNo = Len(tagged_images)) =>
          /\ \A i \in 1..Len(tagged_images) : Unknown(tagged_images[i].tags) = {}
          /\ \A i \in 1..Len(log) : log[i].op = "open" => log[i].ok

\* two files sent: the first tagged apple then banana, the second banana
C21_Witness ==
    /\ BatchSent
    /\ projectTags = <<TagBanana, TagApple>>
    /\ Len(tagged_images) = 2
    /\ Len(tagged_images[1].tags) = 2
    /\ tagged_images[1].tags[1].tag = "apple"
    /\ tagged_images[1].tags[2].tag = "banana"
    /\ Len(tagged_images[2].tags) = 1
    /\ tagged_images[2].tags[1].tag = "banana"
    /\ tagged_images_with_regions[1].regions[1].tag_id = "7f3c-apple-id"
    /\ tagged_images_with_regions[2].regions =
          <<[tag_id |-> "a91e-banana-id", left |-> 250, top |-> 50,
             width |-> 500, height |-> 125]>>

\* what was printed after create_images_from_files returned (line 165)
AfterUpload ==
    LET sent == {i \in 1..Len(log) : log[i].op = "create_images_from_files" /\ log[i].ok}
    IN  IF sent = {} THEN <<>>
        ELSE LET c == CHOOSE i \in sent : TRUE
             IN  [j \in 1..(Len(log) - c) |-> log[c + j].arg]

\* C22: nothing about the outcome is printed before create_images_from_files
\* has returned; once Upload_Images has returned after it, the output that
\* follows the call is the single line "Images uploaded." exactly when the
\* batch was successful, and otherwise "Image batch upload failed." followed
\* by one "Image status: " line for each image of the result, in order; the
\* two outcomes never appear together.
C22_OneOutcomePrinted ==
    LET said(line) == \E i \in 1..Len(log) : log[i].op = "print" /\ log[i].arg = line
    IN  /\ ~(said("Images uploaded.") /\ said("Image batch upload failed."))
        /\ (said("Images uploaded.") \/ said("Image batch upload failed.")) =>
              (pc = "done" /\ exc = NoError)
        /\ pc = "at_result" => AfterUpload = <<>>
        /\ (pc = "done" /\ exc = NoError) =>
              /\ Cardinality({i \in 1..Len(log) : log[i].op = "create_images_from_files"}) = 1
              /\ upload_result.is_batch_successful =>
                    AfterUpload = <<"Images uploaded.">>
              /\ ~upload_result.is_batch_successful =>
                    AfterUpload = <<"Image batch upload failed.">>
                        \o [i \in 1..Len(upload_result.images) |->
                               "Image status:  " \o upload_result.images[i]]

\* a failed batch of two images, the second of which was rejected
C22_Witness ==
    /\ pc = "done"
    /\ ~upload_result.is_batch_successful
    /\ upload_result.images = <<"OK", "ErrorImageFormat">>
    /\ AfterUpload = <<"Image batch upload failed.", "Image status:  OK",
                       "Image status:  ErrorImageFormat">>

\* a successful batch
C22_WitnessUploaded ==
    /\ pc = "done"
    /\ upload_result.is_batch_successful
    /\ Len(tagged_images_with_regions) = 2
    /\ AfterUpload = <<"Images uploaded.">>

---------------------------------------------------------------------------
(* analyze-faces.py: bounds and values                                      *)

\* most faces face_client.detect returns
MaxFaces == 2

\* faces the service can return: head pose angles in tenths of a degree,
\* the three occlusion flags, the types of the accessories
Faces ==
    { [yaw |-> 52, pitch |-> -31, roll |-> 4,
       foreheadOccluded |-> FALSE, eyeOccluded |-> FALSE, mouthOccluded |-> FALSE,
       accessories |-> <<>>],
      [yaw |-> -187, pitch |-> 60, roll |-> -15,
       foreheadOccluded |-> FALSE, eyeOccluded |-> TRUE, mouthOccluded |-> FALSE,
       accessories |-> <<"glasses">>],
      [yaw |-> 0, pitch |-> 125, roll |-> 90,
       foreheadOccluded |-> TRUE, eyeOccluded |-> FALSE, mouthOccluded |-> TRUE,
       accessories |-> <<"headwear", "mask">>] }

\* a file name the user can pass on the command line
ImageArguments == {"images/other.jpg"}

\* sys.argv of a run of script: the script alone, or with one file name
Argv(script) == {<<script>>} \cup {<<script, a>> : a \in ImageArguments}

\* lines 70-78 of analyze-faces, 38-44 of read-text: the default file,
\* replaced by sys.argv[1] (the second element of argv) when there is one
ImageFileOf(argv, default) == IF Len(argv) > 1 THEN argv[2] ELSE default

\* image_file, analyze-faces line 70
FaceImageFile == "images/face1.jpg"

\* what face_client.detect can return (line 114)
FaceLists == SeqsUpTo(Faces, MaxFaces)

\* '{}'.format of a float given in tenths
Tenths(n) ==
    LET a == IF n < 0 THEN -n ELSE n
    IN  (IF n < 0 THEN "-" ELSE "") \o ToString(a \div 10) \o "." \o ToString(a % 10)

\* '{}'.format of a bool
BoolText(b) == IF b THEN "True" ELSE "False"

\* print(len(detected_faces), 'faces detected.'), line 129
FaceCountLine(n) == ToString(n) \o " " \o "faces detected."

\* '\nFace number {}'.format(face_count), line 137
FaceHeader(n) == "\nFace number " \o ToString(n)

\* the prints of lines 137-158 for face number n
FacePrints(face, n) ==
    << Ev("print", FaceHeader(n), TRUE, 137),
       Ev("print", " - Head Pose (Yaw): " \o Tenths(face.yaw), TRUE, 141),
       Ev("print", " - Head Pose (Pitch): " \o Tenths(face.pitch), TRUE, 143),
       Ev("print", " - Head Pose (Roll): " \o Tenths(face.roll), TRUE, 145),
       Ev("print", " - Forehead occluded?: " \o BoolText(face.foreheadOccluded), TRUE, 149),
       Ev("print", " - Eye occluded?: " \o BoolText(face.eyeOccluded), TRUE, 150),
       Ev("print", " - Mouth occluded?: " \o BoolText(face.mouthOccluded), TRUE, 151),
       Ev("print", " - Accessories:", TRUE, 154) >>
    \o [k \in 1..Len(face.accessories) |->
           Ev("print", "   - " \o face.accessories[k], TRUE, 158)]

---------------------------------------------------------------------------
(* analyze-faces.py, main (lines 52-172) and annotate_faces (187-267) *)

AfInit ==
    /\ pc = "af_main"
    /\ iteration = NoJob
    /\ job = NoJob
    /\ settled = FALSE
    /\ log = <<>>
    /\ clock = 0
    /\ exc = NoError
    /\ tags = <<>>
    /\ tagIdx = 0
    /\ images = 0
    /\ iterId = NoJob
    /\ jobId = NoJob
    /\ imgNo = 0
    /\ inputText = <<>>
    /\ prompt = <<>>
    /\ files = <<>>
    /\ image = ""
    /\ preds = <<>>
    /\ classified = <<>>
    /\ OtherLabsIdle

\* every variable analyze-faces does not have
afIdle == <<trainVars, imgNo, inputText, prompt, files, image, preds, classified,
            atVars, rtVars>>

\* raise inside the try block of line 52: control moves to line 164
AfRaise(e) == /\ exc' = e
              /\ pc' = "af_except"

\* lines 52-100
AfSetupOk ==
    /\ pc = "af_main"
    /\ \E argv \in Argv("analyze-faces.py") :
          image_file' = ImageFileOf(argv, FaceImageFile)
    /\ Emit("FaceClient", "", TRUE, 87)
    /\ pc' = "af_detect"
    /\ UNCHANGED <<afIdle, afVars, exc>>

\* line 87 raises, after image_file was set
AfSetupRaise ==
    /\ pc = "af_main"
    /\ \E argv \in Argv("analyze-faces.py") :
          image_file' = ImageFileOf(argv, FaceImageFile)
    /\ \E e \in Errors :
        /\ Emit("FaceClient", ErrorText(e), FALSE, 87)
        /\ AfRaise(e)
    /\ UNCHANGED <<afIdle, afVars>>

\* line 105 raises: the image file cannot be opened
AfOpenRaise ==
    /\ pc = "af_detect"
    /\ \E e \in Errors :
        /\ Emit("open", ErrorText(e), FALSE, 105)
        /\ AfRaise(e)
    /\ UNCHANGED <<afIdle, image_file, afVars>>

\* lines 105-123
AfDetectOk ==
    /\ pc = "af_detect"
    /\ \E fs \in FaceLists :
        /\ detected_faces' = fs
        /\ EmitAll(<< Ev("open", image_file, TRUE, 105),
                      Ev("detect", ToString(Len(fs)), TRUE, 114) >>)
    /\ face_count' = 0
    /\ pc' = "af_if"
    /\ UNCHANGED <<afIdle, image_file, exc>>

\* lines 105-114: the file is opened, then detect raises
AfDetectRaise ==
    /\ pc = "af_detect"
    /\ \E e \in Errors :
        /\ EmitAll(<< Ev("open", image_file, TRUE, 105),
                      Ev("detect", ErrorText(e), FALSE, 114) >>)
        /\ AfRaise(e)
    /\ UNCHANGED <<afIdle, image_file, afVars>>

\* line 127 is false: the try block ends, main returns
AfNoFaces ==
    /\ pc = "af_if"
    /\ ~(Len(detected_faces) > 0)
    /\ pc' = "done"
    /\ UNCHANGED <<afIdle, image_file, afVars, log, exc>>

\* lines 127-129
AfPrintCount ==
    /\ pc = "af_if"
    /\ Len(detected_faces) > 0
    /\ Emit("print", FaceCountLine(Len(detected_faces)), TRUE, 129)
    /\ pc' = "af_for"
    /\ UNCHANGED <<afIdle, image_file, afVars, exc>>

\* a loop that prints the number before counting the face
AfPrintFaceFromZero ==
    /\ pc = "af_for"
    /\ face_count < Len(detected_faces)
    /\ face_count' = face_count + 1
    /\ EmitAll(FacePrints(detected_faces[face_count + 1], face_count))
    /\ UNCHANGED <<afIdle, image_file, pc, exc, detected_faces>>

\* lines 132-158, one face
AfPrintFace ==
    /\ pc = "af_for"
    /\ face_count < Len(detected_faces)
    /\ face_count' = face_count + 1
    /\ EmitAll(FacePrints(detected_faces[face_count + 1], face_count + 1))
    /\ UNCHANGED <<afIdle, image_file, pc, exc, detected_faces>>

\* lines 162, 187: the loop is over, annotate_faces is called
AfAnnotate ==
    /\ pc = "af_for"
    /\ face_count = Len(detected_faces)
    /\ EmitAll(<< Ev("annotate_faces", image_file, TRUE, 162),
                  Ev("print", "\nAnnotating faces in image...", TRUE, 187) >>)
    /\ pc' = "af_draw"
    /\ UNCHANGED <<afIdle, image_file, afVars, exc>>

\* line 200 raises
AfImageOpenRaise ==
    /\ pc = "af_draw"
    /\ \E e \in Errors :
        /\ Emit("Image.open", ErrorText(e), FALSE, 200)
        /\ AfRaise(e)
    /\ UNCHANGED <<afIdle, image_file, afVars>>

\* lines 192-263: the boxes are drawn, the figure is saved
AfSaveOk ==
    /\ pc = "af_draw"
    /\ Emit("savefig", "detected_faces.jpg", TRUE, 263)
    /\ pc' = "af_saved"
    /\ UNCHANGED <<afIdle, image_file, afVars, exc>>

AfSaveRaise ==
    /\ pc = "af_draw"
    /\ \E e \in Errors :
        /\ Emit("savefig", ErrorText(e), FALSE, 263)
        /\ AfRaise(e)
    /\ UNCHANGED <<afIdle, image_file, afVars>>

\* line 267; annotate_faces and main return
AfPrintSaved ==
    /\ pc = "af_saved"
    /\ Emit("print", "  Results saved in detected_faces.jpg\n", TRUE, 267)
    /\ pc' = "done"
    /\ UNCHANGED <<afIdle, image_file, afVars, exc>>

\* lines 164-172
AfExcept ==
    /\ pc = "af_except"
    /\ Emit("print", ErrorText(exc), TRUE, 172)
    /\ pc' = "done"
    /\ UNCHANGED <<afIdle, image_file, afVars, exc>>

AfNext ==
    \/ AfSetupOk
    \/ AfSetupRaise
    \/ AfOpenRaise
    \/ AfDetectOk
    \/ AfDetectRaise
    \/ AfNoFaces
    \/ AfPrintCount
    \/ AfPrintFace
    \/ AfAnnotate
    \/ AfImageOpenRaise
    \/ AfSaveOk
    \/ AfSaveRaise
    \/ AfPrintSaved
    \/ AfExcept

AfSpec == AfInit /\ [][AfNext]_vars

---------------------------------------------------------------------------
(* What a run of analyze-faces says *)

\* positions in the log of the calls made at source line n
At(n) == {i \in 1..Len(log) : log[i].at = n}

\* face_client.detect has returned
Detected == \E i \in At(114) : log[i].ok

\* C23: the face headers printed so far are "Face number 1", "Face number
\* 2", ... in that order, the k-th one followed by the attributes of the
\* k-th face returned, all of them after the single line "N faces
\* detected."; annotate_faces is called at most once, only when N > 0 and
\* only after that line and all N headers, and detected_faces.jpg is saved
\* only inside that call; a run that ends without an error has made the
\* call when N > 0; when N = 0 nothing follows the detect call: no print,
\* no annotate_faces, no file.
C23_FacesListedThenAnnotated ==
    LET N       == Len(detected_faces)
        headers == SelectSeq(log, LAMBDA e : e.at = 137)
    IN  /\ Len(headers) = face_count
        /\ face_count <= N
        /\ \A k \in 1..Len(headers) : headers[k].arg = "\nFace number " \o ToString(k)
        /\ \A i \in At(137) :
              LET k == Cardinality({j \in At(137) : j <= i})
              IN  /\ i < Len(log)
                  /\ log[i + 1].arg = " - Head Pose (Yaw): " \o Tenths(detected_faces[k].yaw)
                  /\ \E c \in At(129) : c < i
        /\ Cardinality(At(129)) <= 1
        /\ \A c \in At(129) : log[c].arg = ToString(N) \o " faces detected."
        /\ Cardinality(At(162)) <= 1
        /\ \A a \in At(162) :
              /\ N > 0
              /\ Cardinality({i \in At(137) : i < a}) = N
              /\ \E c \in At(129) : c < a
        /\ \A w \in At(263) : \E a \in At(162) : a < w
        /\ (pc = "done" /\ exc = NoError /\ N > 0) =>
              /\ Cardinality(At(162)) = 1
              /\ \E w \in At(263) : log[w].ok /\ log[w].arg = "detected_faces.jpg"
        /\ (Detected /\ N = 0) =>
              /\ pc \in {"af_if", "done"}
              /\ log[Len(log)].at = 114

\* two faces were returned, listed and annotated
C23_Witness ==
    /\ pc = "done"
    /\ exc = NoError
    /\ Len(detected_faces) = 2
    /\ \E c, h1, h2, a \in 1..Len(log) :
        /\ c < h1 /\ h1 < h2 /\ h2 < a
        /\ log[c].arg = "2 faces detected."
        /\ log[h1].arg = "\nFace number 1"
        /\ log[h2].arg = "\nFace number 2"
        /\ log[a].op = "annotate_faces"

\* no face was returned and main has returned
C23_WitnessNoFace ==
    /\ pc = "done"
    /\ Detected
    /\ Len(detected_faces) = 0
    /\ log[Len(log)].op = "detect"

---------------------------------------------------------------------------
(* read-text.py: bounds and values                                          *)

\* most blocks of a read result
MaxBlocks == 2
\* most lines of one block
MaxLines == 2

\* lines the service can find: the text of the line and its words, each
\* with a confidence in thousandths
TextLineKinds ==
    { [text |-> "Hello world",
       words |-> <<[text |-> "Hello", confidence |-> 987],
                   [text |-> "world", confidence |-> 1000]>>],
      [text |-> "Azure",
       words |-> <<[text |-> "Azure", confidence |-> 45]>>] }

\* blocks the service can return
TextBlocks == {[lines |-> ls] : ls \in SeqsUpTo(TextLineKinds, MaxLines)}

\* what result.read can be after cv_client.analyze (line 69)
ReadResults ==
    {NoRead} \cup {[isNone |-> FALSE, blocks |-> bs] : bs \in SeqsUpTo(TextBlocks, MaxBlocks)}

\* image_file, read-text line 38
ImageFile == "images/Lincoln.jpg"

\* the thousandths c in 0..2000 that end in 5 and whose float c / 1000 lies
\* above the half-way point of its two neighbouring hundredths (the float
\* of the other values that end in 5 lies below it, or on it with an even
\* lower neighbour)
HalfUp ==
    { 5, 25, 35, 55, 65, 85, 95, 115, 135, 165, 195, 225,
      255, 265, 275, 315, 325, 335, 375, 385, 395, 405, 445, 455,
      465, 505, 515, 525, 535, 545, 555, 635, 645, 655, 665, 675,
      685, 755, 765, 775, 785, 795, 805, 875, 885, 895, 905, 915,
      925, 935, 1135, 1145, 1155, 1165, 1175, 1185, 1195, 1205, 1215, 1225,
      1235, 1245, 1375, 1385, 1395, 1405, 1415, 1425, 1435, 1445, 1455, 1465,
      1475, 1485, 1495, 1635, 1645, 1655, 1665, 1675, 1685, 1695, 1705, 1715,
      1725, 1735, 1745, 1875, 1885, 1895, 1905, 1915, 1925, 1935, 1945, 1955,
      1965, 1975, 1985, 1995 }

\* format(c / 1000, '.2f') for c in 0..2000: the float is rounded to the
\* nearest hundredth; a value that ends in 5 goes up or down with the
\* binary value of the float
Fixed2(c) ==
    LET h == IF c % 10 = 5
             THEN (IF c \in HalfUp THEN c \div 10 + 1 ELSE c \div 10)
             ELSE (c + 5) \div 10
    IN  ToString(h \div 100) \o "." \o ToString((h \div 10) % 10) \o ToString(h % 10)

\* f" {line.text}", line 82
LineText(line) == " " \o line.text

\* f"  {word.text} (Confidence: {word.confidence:.2f}%)", line 97
WordText(word) == "  " \o word.text \o " (Confidence: " \o Fixed2(word.confidence) \o "%)"

\* the prints of the inner loop of lines 94-97 for one line
WordPrints(line) ==
    [k \in 1..Len(line.words) |-> Ev("print", WordText(line.words[k]), TRUE, 97)]

\* result.read.blocks[0].lines, lines 81, 92, 134, 189
TextLinesLastBlock == result.blocks[Len(result.blocks)].lines
TextLines == result.blocks[1].lines

---------------------------------------------------------------------------
(* read-text.py, main (25-106), annotate_lines (116-160), annotate_words   *)
(* (171-216)                                                                *)

RtInit ==
    /\ pc = "rt_main"
    /\ iteration = NoJob
    /\ job = NoJob
    /\ settled = FALSE
    /\ log = <<>>
    /\ clock = 0
    /\ exc = NoError
    /\ tags = <<>>
    /\ tagIdx = 0
    /\ images = 0
    /\ iterId = NoJob
    /\ jobId = NoJob
    /\ imgNo = 0
    /\ inputText = <<>>
    /\ prompt = <<>>
    /\ files = <<>>
    /\ image = ""
    /\ preds = <<>>
    /\ classified = <<>>
    /\ OtherLabsIdle

\* every variable read-text does not have
rtIdle == <<trainVars, imgNo, inputText, prompt, files, image, preds, classified,
            atVars, afVars>>

\* raise inside the try block of line 25: control moves to line 103
RtRaise(e) == /\ exc' = e
              /\ pc' = "rt_except"

\* lines 25-54
RtSetupOk ==
    /\ pc = "rt_main"
    /\ \E argv \in Argv("read-text.py") :
          image_file' = ImageFileOf(argv, ImageFile)
    /\ Emit("ImageAnalysisClient", "", TRUE, 52)
    /\ pc' = "rt_open"
    /\ UNCHANGED <<rtIdle, rtVars, exc>>

\* line 52 raises, after image_file was set
RtSetupRaise ==
    /\ pc = "rt_main"
    /\ \E argv \in Argv("read-text.py") :
          image_file' = ImageFileOf(argv, ImageFile)
    /\ \E e \in Errors :
        /\ Emit("ImageAnalysisClient", ErrorText(e), FALSE, 52)
        /\ RtRaise(e)
    /\ UNCHANGED <<rtIdle, rtVars>>

\* lines 58-62
RtOpenOk ==
    /\ pc = "rt_open"
    /\ EmitAll(<< Ev("open", image_file, TRUE, 58),
                  Ev("print", "\nReading text in " \o image_file, TRUE, 62) >>)
    /\ pc' = "rt_analyze"
    /\ UNCHANGED <<rtIdle, image_file, rtVars, exc>>

RtOpenRaise ==
    /\ pc = "rt_open"
    /\ \E e \in Errors :
        /\ Emit("open", ErrorText(e), FALSE, 58)
        /\ RtRaise(e)
    /\ UNCHANGED <<rtIdle, image_file, rtVars>>

\* lines 69-71
RtAnalyzeOk ==
    /\ pc = "rt_analyze"
    /\ \E r \in ReadResults : result' = r
    /\ Emit("analyze", "", TRUE, 69)
    /\ pc' = "rt_if"
    /\ UNCHANGED <<rtIdle, image_file, exc, lineNo>>

RtAnalyzeRaise ==
    /\ pc = "rt_analyze"
    /\ \E e \in Errors :
        /\ Emit("analyze", ErrorText(e), FALSE, 69)
        /\ RtRaise(e)
    /\ UNCHANGED <<rtIdle, image_file, rtVars>>

\* line 75 is false: the try block ends, main returns
RtNoRead ==
    /\ pc = "rt_if"
    /\ result.isNone
    /\ pc' = "done"
    /\ UNCHANGED <<rtIdle, image_file, rtVars, log, exc>>

\* lines 75-76
RtPrintText ==
    /\ pc = "rt_if"
    /\ ~result.isNone
    /\ Emit("print", "\nText:", TRUE, 76)
    /\ lineNo' = 0
    /\ pc' = "rt_lines"
    /\ UNCHANGED <<rtIdle, image_file, exc, result>>

\* line 81 raises: blocks[0] of an empty list
RtLinesRaise ==
    /\ pc = "rt_lines"
    /\ result.blocks = <<>>
    /\ Emit("blocks[0]", ErrorText(IndexError), FALSE, 81)
    /\ RtRaise(IndexError)
    /\ UNCHANGED <<rtIdle, image_file, rtVars>>

\* lines 81-82, one line
RtPrintLine ==
    /\ pc = "rt_lines"
    /\ result.blocks # <<>>
    /\ lineNo < Len(TextLines)
    /\ lineNo' = lineNo + 1
    /\ Emit("print", LineText(TextLines[lineNo + 1]), TRUE, 82)
    /\ UNCHANGED <<rtIdle, image_file, pc, exc, result>>

\* lines 85, 116: the loop is over, annotate_lines is called
RtAnnotateLines ==
    /\ pc = "rt_lines"
    /\ result.blocks # <<>>
    /\ lineNo = Len(TextLines)
    /\ EmitAll(<< Ev("annotate_lines", image_file, TRUE, 85),
                  Ev("print", "\nAnnotating lines of text in image...", TRUE, 116) >>)
    /\ pc' = "rt_draw_lines"
    /\ UNCHANGED <<rtIdle, image_file, rtVars, exc>>

\* line 119 raises
RtLinesImageRaise ==
    /\ pc = "rt_draw_lines"
    /\ \E e \in Errors :
        /\ Emit("Image.open", ErrorText(e), FALSE, 119)
        /\ RtRaise(e)
    /\ UNCHANGED <<rtIdle, image_file, rtVars>>

\* lines 119-157: the polygons are drawn, the figure is saved
RtLinesSaveOk ==
    /\ pc = "rt_draw_lines"
    /\ Emit("savefig", "lines.jpg", TRUE, 157)
    /\ pc' = "rt_lines_saved"
    /\ UNCHANGED <<rtIdle, image_file, rtVars, exc>>

RtLinesSaveRaise ==
    /\ pc = "rt_draw_lines"
    /\ \E e \in Errors :
        /\ Emit("savefig", ErrorText(e), FALSE, 157)
        /\ RtRaise(e)
    /\ UNCHANGED <<rtIdle, image_file, rtVars>>

\* line 160, annotate_lines returns; line 89
RtWordsHeader ==
    /\ pc = "rt_lines_saved"
    /\ EmitAll(<< Ev("print", "  Results saved in" \o " " \o "lines.jpg", TRUE, 160),
                  Ev("print", "\nIndividual words:", TRUE, 89) >>)
    /\ lineNo' = 0
    /\ pc' = "rt_words"
    /\ UNCHANGED <<rtIdle, image_file, exc, result>>

\* lines 92-97, the words of one line
RtPrintWords ==
    /\ pc = "rt_words"
    /\ lineNo < Len(TextLines)
    /\ lineNo' = lineNo + 1
    /\ EmitAll(WordPrints(TextLines[lineNo + 1]))
    /\ UNCHANGED <<rtIdle, image_file, pc, exc, result>>

\* lines 101, 171: the loop is over, annotate_words is called
RtAnnotateWords ==
    /\ pc = "rt_words"
    /\ lineNo = Len(TextLines)
    /\ EmitAll(<< Ev("annotate_words", image_file, TRUE, 101),
                  Ev("print", "\nAnnotating individual words in image...", TRUE, 171) >>)
    /\ pc' = "rt_draw_words"
    /\ UNCHANGED <<rtIdle, image_file, rtVars, exc>>

\* line 174 raises
RtWordsImageRaise ==
    /\ pc = "rt_draw_words"
    /\ \E e \in Errors :
        /\ Emit("Image.open", ErrorText(e), FALSE, 174)
        /\ RtRaise(e)
    /\ UNCHANGED <<rtIdle, image_file, rtVars>>

\* lines 174-213
RtWordsSaveOk ==
    /\ pc = "rt_draw_words"
    /\ Emit("savefig", "words.jpg", TRUE, 213)
    /\ pc' = "rt_words_saved"
    /\ UNCHANGED <<rtIdle, image_file, rtVars, exc>>

RtWordsSaveRaise ==
    /\ pc = "rt_draw_words"
    /\ \E e \in Errors :
        /\ Emit("savefig", ErrorText(e), FALSE, 213)
        /\ RtRaise(e)
    /\ UNCHANGED <<rtIdle, image_file, rtVars>>

\* line 216; annotate_words and main return
RtWordsSaved ==
    /\ pc = "rt_words_saved"
    /\ Emit("print", "  Results saved in" \o " " \o "words.jpg", TRUE, 216)
    /\ pc' = "done"
    /\ UNCHANGED <<rtIdle, image_file, rtVars, exc>>

\* lines 103-106
RtExcept ==
    /\ pc = "rt_except"
    /\ Emit("print", ErrorText(exc), TRUE, 106)
    /\ pc' = "done"
    /\ UNCHANGED <<rtIdle, image_file, rtVars, exc>>

RtNext ==
    \/ RtSetupOk
    \/ RtSetupRaise
    \/ RtOpenOk
    \/ RtOpenRaise
    \/ RtAnalyzeOk
    \/ RtAnalyzeRaise
    \/ RtNoRead
    \/ RtPrintText
    \/ RtLinesRaise
    \/ RtPrintLine
    \/ RtAnnotateLines
    \/ RtLinesImageRaise
    \/ RtLinesSaveOk
    \/ RtLinesSaveRaise
    \/ RtWordsHeader
    \/ RtPrintWords
    \/ RtAnnotateWords
    \/ RtWordsImageRaise
    \/ RtWordsSaveOk
    \/ RtWordsSaveRaise
    \/ RtWordsSaved
    \/ RtExcept

RtSpec == RtInit /\ [][RtNext]_vars

---------------------------------------------------------------------------
(* What a run of read-text says *)

\* cv_client.analyze has returned
Analyzed == \E i \in At(69) : log[i].ok

\* the words of a sequence of lines as line 97 prints them
RECURSIVE WordLines(_)
WordLines(ls) ==
    IF ls = <<>> THEN <<>>
    ELSE [k \in 1..Len(Head(ls).words) |-> WordText(Head(ls).words[k])]
         \o WordLines(Tail(ls))

\* C24: with a read section, the lines printed (line 82) are those of the
\* first block, in order; annotate_lines is called once, after all of
\* them; the words printed (line 97) are those of the first block's lines,
\* in order, all after annotate_lines has saved lines.jpg and returned;
\* annotate_words is called once, after all of them; lines.jpg and
\* words.jpg are written only inside their call. With no read section
\* nothing follows the analyze call. With a read section that has no
\* blocks the IndexError of line 81 is printed by main's handler and
\* neither file is written.
C24_LinesThenWordsOfFirstBlock ==
    LET printedLines == SelectSeq(log, LAMBDA e : e.at = 82)
        printedWords == SelectSeq(log, LAMBDA e : e.at = 97)
    IN  /\ (At(82) # {} \/ At(97) # {}) =>
              /\ ~result.isNone
              /\ result.blocks # <<>>
              /\ Len(printedLines) <= Len(result.blocks[1].lines)
              /\ \A k \in 1..Len(printedLines) :
                    printedLines[k].arg = " " \o result.blocks[1].lines[k].text
              /\ Len(printedWords) <= Len(WordLines(result.blocks[1].lines))
              /\ \A k \in 1..Len(printedWords) :
                    printedWords[k].arg = WordLines(result.blocks[1].lines)[k]
        /\ Cardinality(At(85)) <= 1
        /\ Cardinality(At(101)) <= 1
        /\ \A a \in At(85) :
              /\ Len(printedLines) = Len(result.blocks[1].lines)
              /\ \A i \in At(82) : i < a
        /\ \A w \in At(97) : \E r \in At(160) : r < w
        /\ \A r \in At(160) : \E f \in At(157) : f < r /\ log[f].ok
        /\ \A f \in At(157) : \E a \in At(85) : a < f
        /\ \A a \in At(101) :
              /\ Len(printedWords) = Len(WordLines(result.blocks[1].lines))
              /\ \A w \in At(97) : w < a
              /\ \E r \in At(160) : r < a
        /\ \A f \in At(213) : \E a \in At(101) : a < f
        /\ (pc = "done" /\ exc = NoError /\ ~result.isNone) =>
              /\ \E f \in At(157) : log[f].ok /\ log[f].arg = "lines.jpg"
              /\ \E f \in At(213) : log[f].ok /\ log[f].arg = "words.jpg"
        /\ (Analyzed /\ result.isNone) =>
              /\ pc \in {"rt_if", "done"}
              /\ log[Len(log)].at = 69
        /\ (Analyzed /\ ~result.isNone /\ result.blocks = <<>>) =>
              /\ At(82) = {} /\ At(97) = {} /\ At(157) = {} /\ At(213) = {}
              /\ At(85) = {} /\ At(101) = {}
              /\ pc \in {"rt_if", "rt_lines", "rt_except", "done"}
              /\ pc = "done" =>
                    /\ exc = IndexError
                    /\ log[Len(log)] = Ev("print", "list index out of range", TRUE, 106)
                    /\ log[Len(log) - 1].at = 81 /\ ~log[Len(log) - 1].ok

\* two blocks were returned; the two lines of the first, then its three
\* words, were printed and both files written, nothing of the second block
C24_Witness ==
    /\ pc = "done"
    /\ exc = NoError
    /\ ~result.isNone
    /\ Len(result.blocks) = 2
    /\ Len(result.blocks[1].lines) = 2
    /\ result.blocks[1].lines[1].text = "Hello world"
    /\ result.blocks[1].lines[2].text = "Azure"
    /\ Len(result.blocks[2].lines) = 1
    /\ result.blocks[2].lines[1].text = "Hello world"
    /\ [k \in 1..3 |-> SelectSeq(log, LAMBDA e : e.at = 97)[k].arg] =
          << "  Hello (Confidence: 0.99%)", "  world (Confidence: 1.00%)",
             "  Azure (Confidence: 0.04%)" >>
    /\ Cardinality(At(97)) = 3
    /\ Cardinality(At(82)) = 2

\* the read section was None and main has returned
C24_WitnessNone ==
    /\ pc = "done"
    /\ Analyzed
    /\ result.isNone
    /\ log[Len(log)].op = "analyze"

\* the read section had no blocks and the error was printed
C24_WitnessNoBlocks ==
    /\ pc = "done"
    /\ Analyzed
    /\ ~result.isNone
    /\ result.blocks = <<>>
    /\ log[Len(log)].arg = "list index out of range"

====
